---- MODULE Spec2Model ----
(***************************************************************************)
(* Order creation, payment intents and webhook reconciliation of the       *)
(* StepUp shop backend (app/crud/order.py, app/crud/cart.py,               *)
(* app/crud/payment.py, app/api/endpoints/orders.py,                       *)
(* app/api/endpoints/octo.py).                                             *)
(*                                                                         *)
(* Every request handler is one action: the requests of one process are    *)
(* taken one after another.  Prices are whole currency units.  A database  *)
(* row's primary key is its position in the table's sequence.              *)
(***************************************************************************)
EXTENDS Integers, Sequences, FiniteSets, TLC

\* ------------------------------------------------------------------ bounds
MaxOrders == 2          \* order rows ever inserted
MaxPayments == 2        \* payment rows ever inserted
MaxLines == 2           \* lines of one order request

\* ------------------------------------------------- program constants, sets
ORDER_MAX_QTY_PER_ITEM == 50

NULL == 0               \* SQL NULL / Python None in an integer or id column
NoKey == ""             \* no X-Idempotency-Key header

Users == {1, 2}
Slippers == {1, 2}      \* products of the catalog
MaxLineQuantity == 100  \* OrderItemCreate.quantity: gt 0, le 100
MaxCartQuantity == 999  \* CartItemCreate.quantity: ge 1, le 999

OrderStatus == {"PENDING", "PAID", "REFUNDED"}
PaymentStatus == {"CREATED", "PENDING", "PAID", "FAILED", "CANCELLED", "REFUNDED"}

VARIABLES
    products,   \* catalog: slipper id -> [quantity, price]
    carts,      \* table carts: sequence of [user_id, items], items a sequence of [slipper_id, quantity]
    orders,     \* table orders with each order's order_items
    expired,    \* orders with id <= expired were created more than 5 minutes ago
    payments,   \* table payments
    resp,       \* the last request and its response
    outbound,   \* the last call of the gateway client and what came of it
    cache,      \* SimpleAsyncCache._cache: key -> entry
    lock,       \* SimpleAsyncCache._lock: the task that holds it
    tasks,      \* the tasks that use the cache: where each one stands
    clock,      \* time.time()
    sessions    \* the database sessions of two requests in flight: where
                \* the crud call of each one stands

\* The state of the process, which no request handler of the routers below
\* reads or writes in this model.
process == <<outbound, cache, lock, tasks, clock, sessions>>

vars == <<products, carts, orders, expired, payments, resp, process>>

\* ----------------------------------------------------------------- helpers
RECURSIVE SumSeq(_)
SumSeq(s) == IF s = <<>> THEN 0 ELSE Head(s) + SumSeq(Tail(s))

Max(S) == CHOOSE x \in S : \A y \in S : y <= x

\* A deleted order row: its primary key is never reused.
DeletedOrder ==
    [user_id |-> NULL, status |-> "DELETED", total_amount |-> 0,
     idempotency_key |-> NoKey, payment_uuid |-> NULL, items |-> <<>>]

Live(ords, i) == i \in 1..Len(ords) /\ ords[i].user_id # NULL

ItemTotals(items) == SumSeq([i \in 1..Len(items) |-> items[i].total_price])

\* Position of the first item of `items` for slipper `sid`, 0 when there is none.
ItemIndex(items, sid) ==
    IF \E i \in 1..Len(items) : items[i].slipper_id = sid
    THEN CHOOSE i \in 1..Len(items) :
            /\ items[i].slipper_id = sid
            /\ \A j \in 1..(i - 1) : items[j].slipper_id # sid
    ELSE 0

\* The unique index uq_order_items_order_slipper on order_items(order_id, slipper_id).
UniqueItems(items) ==
    \A i, j \in 1..Len(items) : items[i].slipper_id = items[j].slipper_id => i = j

\* q clamped to the per-line maximum.
Clamp(q) == IF q > ORDER_MAX_QTY_PER_ITEM THEN ORDER_MAX_QTY_PER_ITEM ELSE q

\* ------------------------------------------------------- crud/order.py
\* The lookup by key alone, without the user_id condition.
ExistingByKeyAnyUser(ords, u, key) ==
    {i \in 1..Len(ords) : Live(ords, i) /\ ords[i].idempotency_key = key}

\* The idempotency lookup: orders with this key that belong to this user.
ExistingByKey(ords, u, key) ==
    {i \in 1..Len(ords) :
        Live(ords, i) /\ ords[i].idempotency_key = key /\ ords[i].user_id = u}

\* A merge query that also takes orders a payment was started for.
MergeCandidatesWithPayment(ords, exp, u) ==
    {i \in 1..Len(ords) : ords[i].user_id = u /\ ords[i].status = "PENDING" /\ i > exp}

\* The merge query: the user's PENDING orders without payment_uuid created
\* inside the 5 minute window; the most recently created one is taken.
MergeCandidates(ords, exp, u) ==
    {i \in 1..Len(ords) :
        /\ ords[i].user_id = u
        /\ ords[i].status = "PENDING"
        /\ ords[i].payment_uuid = NULL
        /\ i > exp}

MergeTarget(ords, exp, u, merge_fallback) ==
    IF merge_fallback /\ MergeCandidates(ords, exp, u) # {}
    THEN Max(MergeCandidates(ords, exp, u))
    ELSE NULL

\* A stock test on the incoming quantity alone.
MergeStockDeltaOnly(already, incoming, available) == incoming > available

\* Stock test of the merge path: quantity already in the target plus the line.
MergeStockExceeded(already, incoming, available) == already + incoming > available

\* A merge that leaves the item at the unit price it was created with.
MergedPriceKept(item, unit_price) == item.unit_price

\* existing_item.unit_price = unit_price: an item a merge adds quantity to
\* takes the current catalog price for all its pieces.
MergedPrice(item, unit_price) == unit_price

\* The merge loop over the request lines.  acc.items are the target's loaded
\* OrderItems (mutated in place), acc.new the OrderItems added to the session.
RECURSIVE MergeLines(_, _, _)
MergeLines(prods, acc, lines) ==
    IF lines = <<>> \/ acc.kind # "ok" THEN acc
    ELSE
        LET sid == Head(lines).slipper_id IN
        IF sid \notin DOMAIN prods
        THEN [acc EXCEPT !.kind = "not_found", !.detail = <<sid>>]
        ELSE
            LET incoming == Clamp(Head(lines).quantity)
                k == ItemIndex(acc.items, sid)
                already == IF k = 0 THEN 0 ELSE acc.items[k].quantity
                available == prods[sid].quantity
                unit_price == prods[sid].price
            IN
            IF MergeStockExceeded(already, incoming, available)
            THEN [acc EXCEPT !.kind = "stock",
                             !.detail = <<sid, already + incoming, available>>]
            ELSE IF k # 0
            THEN MergeLines(prods,
                    [acc EXCEPT !.items[k] =
                        [slipper_id |-> sid, quantity |-> already + incoming,
                         unit_price |-> MergedPrice(acc.items[k], unit_price),
                         total_price |-> MergedPrice(acc.items[k], unit_price)
                                            * (already + incoming)]],
                    Tail(lines))
            ELSE MergeLines(prods,
                    [acc EXCEPT !.new = Append(@,
                        [slipper_id |-> sid, quantity |-> incoming,
                         unit_price |-> unit_price,
                         total_price |-> unit_price * incoming])],
                    Tail(lines))

\* A failed merge whose session is flushed: the items the loop changed in
\* memory reach the table.
MergeFailureFlushed(ords, t, items) == [ords EXCEPT ![t].items = items]

\* A merge that raises inside the loop: the session has autoflush off, so
\* nothing was written when the ValueError leaves create_order, and get_db
\* rolls the session back.
MergeFailure(ords, t, items) == ords

\* The merge path: loop, commit (the unique index rejects two rows for one
\* product), reload the items and store their sum as total_amount.
MergeIntoTarget(ords, prods, t, lines) ==
    LET acc == MergeLines(prods,
                   [kind |-> "ok", detail |-> <<>>, items |-> ords[t].items, new |-> <<>>],
                   lines)
        all == acc.items \o acc.new
    IN
    IF acc.kind # "ok"
    THEN [kind |-> acc.kind, detail |-> acc.detail,
          orders |-> MergeFailure(ords, t, acc.items), id |-> NULL]
    ELSE IF ~UniqueItems(all)
    THEN [kind |-> "integrity", detail |-> <<>>, orders |-> ords, id |-> NULL]
    ELSE [kind |-> "ok", detail |-> <<>>, id |-> t,
          orders |-> [ords EXCEPT ![t].items = all,
                                  ![t].total_amount = ItemTotals(all)]]

\* The clamped quantity of the last line naming sid, not aggregated.
RECURSIVE RequestedLastLine(_, _)
RequestedLastLine(lines, sid) ==
    IF lines = <<>> THEN 0
    ELSE IF lines[Len(lines)].slipper_id = sid
         THEN Clamp(lines[Len(lines)].quantity)
         ELSE RequestedLastLine(SubSeq(lines, 1, Len(lines) - 1), sid)

\* requested[sid]: the clamped quantities of the lines naming sid, summed.
RECURSIVE Requested(_, _)
Requested(lines, sid) ==
    IF lines = <<>> THEN 0
    ELSE (IF Head(lines).slipper_id = sid THEN Clamp(Head(lines).quantity) ELSE 0)
         + Requested(Tail(lines), sid)

\* item_ids: the distinct slipper ids of the request, in order of first use.
RECURSIVE ItemIds(_, _)
ItemIds(lines, seen) ==
    IF lines = <<>> THEN seen
    ELSE ItemIds(Tail(lines),
                 IF \E i \in 1..Len(seen) : seen[i] = Head(lines).slipper_id
                 THEN seen ELSE Append(seen, Head(lines).slipper_id))

\* First pass of the fresh path: every distinct product exists and its
\* aggregated quantity is in stock; the first offender raises.
RECURSIVE ValidateFresh(_, _, _)
ValidateFresh(prods, lines, ids) ==
    IF ids = <<>> THEN [kind |-> "ok", detail |-> <<>>]
    ELSE
        LET sid == Head(ids) IN
        IF sid \notin DOMAIN prods
        THEN [kind |-> "not_found", detail |-> <<sid>>]
        ELSE
            LET qty == Requested(lines, sid)
                available == prods[sid].quantity
            IN
            IF qty > available
            THEN [kind |-> "stock", detail |-> <<sid, qty, available>>]
            ELSE ValidateFresh(prods, lines, Tail(ids))

\* Second pass: price the lines, consolidating lines of one product.
RECURSIVE BuildItems(_, _, _)
BuildItems(prods, acc, lines) ==
    IF lines = <<>> THEN acc
    ELSE
        LET sid == Head(lines).slipper_id
            qty == Clamp(Head(lines).quantity)
            unit_price == prods[sid].price
            k == ItemIndex(acc.order_items, sid)
        IN
        BuildItems(prods,
            [total_amount |-> acc.total_amount + unit_price * qty,
             order_items |->
                IF k # 0
                THEN [acc.order_items EXCEPT ![k] =
                        [slipper_id |-> sid, quantity |-> @.quantity + qty,
                         unit_price |-> unit_price,
                         total_price |-> unit_price * (@.quantity + qty)]]
                ELSE Append(acc.order_items,
                        [slipper_id |-> sid, quantity |-> qty,
                         unit_price |-> unit_price,
                         total_price |-> unit_price * qty])],
            Tail(lines))

\* The unique index uq_orders_idempotency_key on orders(idempotency_key):
\* NULL keys never collide.
KeyCollides(ords, key) ==
    key # NoKey /\ \E i \in 1..Len(ords) : Live(ords, i) /\ ords[i].idempotency_key = key

\* The pieces of product sid in the orders of the table.
Ordered(ords, sid) ==
    SumSeq([i \in 1..Len(ords) |->
               IF Live(ords, i)
               THEN SumSeq([k \in 1..Len(ords[i].items) |->
                               IF ords[i].items[k].slipper_id = sid
                               THEN ords[i].items[k].quantity ELSE 0])
               ELSE 0])

\* A stock from which the pieces already ordered are taken off.
StockLessOrdered(ords, prods) ==
    [sid \in DOMAIN prods |->
        [prods[sid] EXCEPT !.quantity = Max({0, @ - Ordered(ords, sid)})]]

\* The stock the validation reads: slipper.quantity as the catalog stores
\* it, whatever the orders of the table hold.
StockView(ords, prods) == prods

\* The fresh path: validate, price, insert order and items, recompute the total.
FreshOrder(ords, prods, u, lines, key) ==
    LET v == ValidateFresh(StockView(ords, prods), lines, ItemIds(lines, <<>>)) IN
    IF v.kind # "ok"
    THEN [kind |-> v.kind, detail |-> v.detail, orders |-> ords, id |-> NULL]
    ELSE IF KeyCollides(ords, key)
    THEN [kind |-> "integrity", detail |-> <<>>, orders |-> ords, id |-> NULL]
    ELSE
        LET b == BuildItems(prods, [total_amount |-> 0, order_items |-> <<>>], lines)
            exact_total == ItemTotals(b.order_items)
            db_order ==
                [user_id |-> u, status |-> "PENDING",
                 total_amount |-> IF b.total_amount # exact_total
                                  THEN exact_total ELSE b.total_amount,
                 idempotency_key |-> key, payment_uuid |-> NULL,
                 items |-> b.order_items]
        IN [kind |-> "ok", detail |-> <<>>, orders |-> Append(ords, db_order),
            id |-> Len(ords) + 1]

\* create_order(db, order, idempotency_key, merge_fallback): the result kind
\* ("ok" or the exception raised), the orders table afterwards and the id of
\* the order returned.
create_order(ords, exp, prods, u, lines, key, merge_fallback) ==
    IF key # NoKey /\ ExistingByKey(ords, u, key) # {}
    THEN [kind |-> "ok", detail |-> <<>>, orders |-> ords,
          id |-> CHOOSE i \in ExistingByKey(ords, u, key) : TRUE]
    ELSE
        LET t == MergeTarget(ords, exp, u, merge_fallback) IN
        IF t # NULL
        THEN MergeIntoTarget(ords, prods, t, lines)
        ELSE FreshOrder(ords, prods, u, lines, key)

\* update_order(db, db_order, order_update): the fields set in the request
\* are assigned; unset fields (status "", total_amount -1) are left alone.
update_order(ords, oid, status, total_amount) ==
    [ords EXCEPT ![oid].status = IF status = "" THEN @ ELSE status,
                 ![oid].total_amount = IF total_amount < 0 THEN @ ELSE total_amount]

\* update_order_status(db, order_id, status): None when the order is missing.
update_order_status(ords, oid, status) ==
    IF Live(ords, oid) THEN [ords EXCEPT ![oid].status = status] ELSE ords

\* update_order_payment_uuid(db, order_id, payment_uuid)
update_order_payment_uuid(ords, oid, payment_uuid) ==
    IF Live(ords, oid) THEN [ords EXCEPT ![oid].payment_uuid = payment_uuid] ELSE ords

\* -------------------------------------------------------- crud/cart.py
CartsOf(cs, u) == {i \in 1..Len(cs) : cs[i].user_id = u}

\* get_cart / get_or_create_cart read with scalar_one_or_none(): more than
\* one row raises MultipleResultsFound.
get_or_create_cart(cs, u) ==
    IF Cardinality(CartsOf(cs, u)) > 1
    THEN [kind |-> "multiple", carts |-> cs, cart |-> NULL]
    ELSE IF CartsOf(cs, u) = {}
    THEN [kind |-> "ok", cart |-> Len(cs) + 1,
          carts |-> Append(cs, [user_id |-> u, items |-> <<>>])]
    ELSE [kind |-> "ok", carts |-> cs, cart |-> CHOOSE i \in CartsOf(cs, u) : TRUE]

\* A search of the cart that never finds the product.
CartLineNone(items, sid) == 0

\* The loop of add_item over cart.items: the line of the product, 0 for none.
CartLine(items, sid) == ItemIndex(items, sid)

\* A stock test that also refuses a line equal to the stock.
CartStockReached(new_qty, available) == new_qty >= available

\* The stock test of add_item and update_item.
CartStockExceeded(new_qty, available) == new_qty > available

\* add_item(db, user_id, item)
add_item(cs, prods, u, sid, quantity) ==
    LET g == get_or_create_cart(cs, u) IN
    IF g.kind # "ok" THEN [kind |-> g.kind, carts |-> cs]
    ELSE IF sid \notin DOMAIN prods THEN [kind |-> "not_found", carts |-> g.carts]
    ELSE
        LET items == g.carts[g.cart].items
            k == CartLine(items, sid)
            new_qty == IF k = 0 THEN quantity ELSE items[k].quantity + quantity
        IN
        IF CartStockExceeded(new_qty, prods[sid].quantity)
        THEN [kind |-> "stock", carts |-> g.carts]
        ELSE [kind |-> "ok",
              carts |-> [g.carts EXCEPT ![g.cart].items =
                            IF k = 0
                            THEN Append(items, [slipper_id |-> sid, quantity |-> new_qty])
                            ELSE [items EXCEPT ![k].quantity = new_qty]]]

\* items without its k-th line.
RemoveAt(items, k) == SubSeq(items, 1, k - 1) \o SubSeq(items, k + 1, Len(items))

\* A cart_item_id names a line by the cart that holds it and the line's
\* position there; NoLine is the target of a search that found nothing.
CartItemId(c, k) == [cart |-> c, line |-> k]

NoLine == CartItemId(NULL, NULL)

\* A search for the line in every cart, whoever owns it.
CartTargetAnyCart(cs, c, id) ==
    IF id.cart \in 1..Len(cs) /\ id.line \in 1..Len(cs[id.cart].items) THEN id ELSE NoLine

\* next((ci for ci in cart.items if ci.id == cart_item_id), None): the
\* search goes through the lines of the caller's cart c only.
CartTarget(cs, c, id) ==
    IF id.cart = c /\ id.line \in 1..Len(cs[c].items) THEN id ELSE NoLine

\* update_item(db, user_id, cart_item_id, update).  Quantity 0 deletes the
\* line.
update_item(cs, prods, u, id, quantity) ==
    LET g == get_or_create_cart(cs, u) IN
    IF g.kind # "ok" THEN [kind |-> g.kind, carts |-> cs]
    ELSE
        LET target == CartTarget(g.carts, g.cart, id)
            items == g.carts[target.cart].items
            k == target.line
        IN
        IF target = NoLine THEN [kind |-> "not_found", carts |-> g.carts]
        ELSE IF quantity = 0
        THEN [kind |-> "ok",
              carts |-> [g.carts EXCEPT ![target.cart].items = RemoveAt(items, k)]]
        ELSE IF CartStockExceeded(quantity, prods[items[k].slipper_id].quantity)
        THEN [kind |-> "stock", carts |-> g.carts]
        ELSE [kind |-> "ok",
              carts |-> [g.carts EXCEPT ![target.cart].items[k].quantity = quantity]]

\* remove_item(db, user_id, cart_item_id)
remove_item(cs, u, id) ==
    LET g == get_or_create_cart(cs, u) IN
    IF g.kind # "ok" THEN [kind |-> g.kind, carts |-> cs]
    ELSE
        LET target == CartTarget(g.carts, g.cart, id)
            items == g.carts[target.cart].items
        IN
        IF target = NoLine THEN [kind |-> "not_found", carts |-> g.carts]
        ELSE [kind |-> "ok",
              carts |-> [g.carts EXCEPT ![target.cart].items = RemoveAt(items, target.line)]]

\* clear_cart(db, user_id): deletes the lines, keeps the Cart row.
clear_cart(cs, u) ==
    LET g == get_or_create_cart(cs, u) IN
    IF g.kind # "ok" THEN [kind |-> g.kind, carts |-> cs]
    ELSE [kind |-> "ok", carts |-> [g.carts EXCEPT ![g.cart].items = <<>>]]

\* get_cart_totals(db, user_id): total_amount, summed over the lines joined
\* with the catalog at current prices.
get_cart_totals(cs, prods, u) ==
    IF Cardinality(CartsOf(cs, u)) > 1 THEN [kind |-> "multiple", total_amount |-> 0]
    ELSE IF CartsOf(cs, u) = {} THEN [kind |-> "ok", total_amount |-> 0]
    ELSE
        LET items == cs[CHOOSE i \in CartsOf(cs, u) : TRUE].items IN
        [kind |-> "ok",
         total_amount |->
            SumSeq([i \in 1..Len(items) |->
                        IF items[i].slipper_id \in DOMAIN prods
                        THEN prods[items[i].slipper_id].price * items[i].quantity
                        ELSE 0])]

\* ----------------------------------------------------- crud/payment.py
\* A create_payment that cancels the payments the order already has.
create_payment_superseding(pays, shop_transaction_id, amount, order_id, octo_payment_uuid) ==
    Append([i \in 1..Len(pays) |->
                IF pays[i].order_id = order_id
                THEN [pays[i] EXCEPT !.status = "CANCELLED"]
                ELSE pays[i]],
        [order_id |-> order_id, shop_transaction_id |-> shop_transaction_id,
         octo_payment_uuid |-> octo_payment_uuid, amount |-> amount,
         status |-> "CREATED", raw |-> <<>>])

\* create_payment: a row in status CREATED.  shop_transaction_id is the
\* uuid4 drawn by createPayment, here the number of the row.
create_payment(pays, shop_transaction_id, amount, order_id, octo_payment_uuid) ==
    Append(pays,
        [order_id |-> order_id, shop_transaction_id |-> shop_transaction_id,
         octo_payment_uuid |-> octo_payment_uuid, amount |-> amount,
         status |-> "CREATED", raw |-> <<>>])

get_payment_by_shop_tx(pays, shop_transaction_id) ==
    {i \in 1..Len(pays) : pays[i].shop_transaction_id = shop_transaction_id}

get_payment_by_uuid(pays, octo_payment_uuid) ==
    {i \in 1..Len(pays) : pays[i].octo_payment_uuid = octo_payment_uuid}

\* update_payment_status: status always, correlation id and raw when given.
update_payment_status(pays, p, status, octo_payment_uuid, raw) ==
    [pays EXCEPT ![p].status = status,
                 ![p].octo_payment_uuid = IF octo_payment_uuid # NULL
                                          THEN octo_payment_uuid ELSE @,
                 ![p].raw = <<raw>>]

\* ------------------------------------------------ requests and responses
\* The record kept of the last request: the handler, its caller, the outcome
\* ("ok", or the HTTP error or exception that ended it) and the order it
\* answered with.
Response(op, user, kind, order) ==
    [op |-> op, user |-> user, kind |-> kind, order |-> order]

\* The handlers that translate a ValueError of the crud layer into an
\* HTTPException: those of the cart router.
CatchesValueError(op) == op \in {"add_item", "update_item", "remove_item"}

\* The status code a request ends with: 200 for a result, the code of the
\* HTTPException the handler raised, and 500 from the global exception
\* handler for every exception no handler caught.
HttpStatus(op, kind) ==
    CASE kind = "ok" -> 200
      [] kind = "http_400" -> 400
      [] kind = "http_403" -> 403
      [] kind = "http_404" -> 404
      [] kind = "not_found" /\ CatchesValueError(op) -> 404
      [] kind = "stock" /\ CatchesValueError(op) -> 400
      [] OTHER -> 500

Abs(x) == IF x < 0 THEN -x ELSE x

\* "Align total to cart total": the order's total is overwritten by the cart
\* total when that is non-zero and differs by more than 0.5.
AlignToCart(ords, id, cart_total) ==
    IF cart_total # 0 /\ 2 * Abs(ords[id].total_amount - cart_total) > 1
    THEN [ords EXCEPT ![id].total_amount = cart_total]
    ELSE ords

\* The OrderItemCreate rows built from cart lines or from body items.
LinesValid(lines) ==
    \A i \in 1..Len(lines) : lines[i].quantity > 0 /\ lines[i].quantity <= MaxLineQuantity

CartLines(cs, u) ==
    LET items == cs[CHOOSE i \in CartsOf(cs, u) : TRUE].items IN
    [i \in 1..Len(items) |->
        [slipper_id |-> items[i].slipper_id, quantity |-> items[i].quantity]]

\* --------------------------------------------- api/endpoints/orders.py
\* A POST /orders that takes the pieces of its first line out of the stock.
create_order_reserving(u, lines, key, merge) ==
    \E r \in {create_order(orders, expired, products, u, lines, key, merge)} :
    /\ Len(r.orders) <= MaxOrders
    /\ orders' = r.orders
    /\ resp' = Response("create_order", u, r.kind, r.id)
    /\ products' = IF r.kind = "ok"
                    THEN [products EXCEPT ![lines[1].slipper_id].quantity =
                                              Max({0, @ - lines[1].quantity})]
                    ELSE products
    /\ UNCHANGED <<carts, expired, payments, process>>

\* POST /orders
create_order_endpoint(u, lines, key, merge) ==
    \E r \in {create_order(orders, expired, products, u, lines, key, merge)} :
    /\ Len(r.orders) <= MaxOrders
    /\ orders' = r.orders
    /\ resp' = Response("create_order", u, r.kind, r.id)
    /\ UNCHANGED <<products, carts, expired, payments, process>>

\* A checkout that empties the cart whether or not it was asked to.
CartAlwaysCleared(cs, u, clear) == clear_cart(cs, u).carts

\* The carts after an order was created from the cart: cleared when
\* clear_cart=true was sent; a failure of the clearing is swallowed.
CartAfterOrder(cs, u, clear) == IF clear THEN clear_cart(cs, u).carts ELSE cs

\* POST /orders/from-cart, as a function of the tables: the outcome, the
\* order answered with and the tables afterwards.  The cart is cleared, when
\* asked for, after create_order has committed the order.
order_from_cart(ords, exp, prods, cs, u, clear) ==
    LET refused(kind) == [kind |-> kind, id |-> NULL, orders |-> ords, carts |-> cs]
        r == create_order(ords, exp, prods, u, CartLines(cs, u), NoKey, FALSE)
    IN
    IF Cardinality(CartsOf(cs, u)) > 1 THEN refused("multiple")
    ELSE IF CartsOf(cs, u) = {} \/ CartLines(cs, u) = <<>> THEN refused("http_400")
    ELSE IF ~LinesValid(CartLines(cs, u)) THEN refused("validation")
    ELSE IF r.kind # "ok" THEN refused(r.kind)
    ELSE [kind |-> "ok", id |-> r.id,
          orders |-> AlignToCart(r.orders, r.id, get_cart_totals(cs, prods, u).total_amount),
          carts |-> CartAfterOrder(cs, u, clear)]

create_order_from_cart(u, clear) ==
    \E r \in {order_from_cart(orders, expired, products, carts, u, clear)} :
    /\ Len(r.orders) <= MaxOrders
    /\ orders' = r.orders
    /\ carts' = r.carts
    /\ resp' = Response("from_cart", u, r.kind, r.id)
    /\ UNCHANGED <<products, expired, payments, process>>

\* PUT /orders/{order_id}: the owner or an admin; status "" and
\* total_amount -1 stand for fields the request leaves unset.
update_order_endpoint(u, is_admin, oid, status, total_amount) ==
    LET answer(kind) ==
            Response("update_order", u, kind, oid)
    IN
    IF ~Live(orders, oid)
    THEN /\ resp' = answer("http_404")
         /\ UNCHANGED <<products, carts, orders, expired, payments, process>>
    ELSE IF ~is_admin /\ orders[oid].user_id # u
    THEN /\ resp' = answer("http_403")
         /\ UNCHANGED <<products, carts, orders, expired, payments, process>>
    ELSE /\ orders' = update_order(orders, oid, status, total_amount)
         /\ resp' = answer("ok")
         /\ UNCHANGED <<products, carts, expired, payments, process>>

\* DELETE /orders/{order_id}: the order and its items go; payments.order_id
\* is a foreign key ON DELETE SET NULL.
delete_order_endpoint(u, is_admin, oid) ==
    LET answer(kind) ==
            Response("delete_order", u, kind, oid)
    IN
    IF ~Live(orders, oid)
    THEN /\ resp' = answer("http_404")
         /\ UNCHANGED <<products, carts, orders, expired, payments, process>>
    ELSE IF ~is_admin /\ orders[oid].user_id # u
    THEN /\ resp' = answer("http_403")
         /\ UNCHANGED <<products, carts, orders, expired, payments, process>>
    ELSE /\ orders' = [orders EXCEPT ![oid] = DeletedOrder]
         /\ payments' = [i \in 1..Len(payments) |->
                            IF payments[i].order_id = oid
                            THEN [payments[i] EXCEPT !.order_id = NULL]
                            ELSE payments[i]]
         /\ resp' = answer("ok")
         /\ UNCHANGED <<products, carts, expired, process>>

\* ----------------------------------------------- api/endpoints/cart.py
\* POST /cart/items
add_cart_item(u, sid, quantity) ==
    LET r == add_item(carts, products, u, sid, quantity) IN
    /\ carts' = r.carts
    /\ resp' = Response("add_item", u, r.kind, NULL)
    /\ UNCHANGED <<products, orders, expired, payments, process>>

\* PUT /cart/items/{cart_item_id}
update_cart_item(u, id, quantity) ==
    LET r == update_item(carts, products, u, id, quantity) IN
    /\ carts' = r.carts
    /\ resp' = Response("update_item", u, r.kind, NULL)
    /\ UNCHANGED <<products, orders, expired, payments, process>>

\* DELETE /cart/items/{cart_item_id}
delete_cart_item(u, id) ==
    LET r == remove_item(carts, u, id) IN
    /\ carts' = r.carts
    /\ resp' = Response("remove_item", u, r.kind, NULL)
    /\ UNCHANGED <<products, orders, expired, payments, process>>

\* DELETE /cart/clear
clear_my_cart(u) ==
    LET r == clear_cart(carts, u) IN
    /\ carts' = r.carts
    /\ resp' = Response("clear_cart", u, r.kind, NULL)
    /\ UNCHANGED <<products, orders, expired, payments, process>>

\* ----------------------------------------------- api/endpoints/octo.py
\* The order statuses for which no payment intent may be created.
PaymentNeverRefused(order) == FALSE

PaymentRefused(order) == order.status = "REFUNDED"

\* POST /payments/octo/create, as a function of the tables.  oid NULL: no
\* order id in the body; items <<>>: no items in the body; override NULL: no
\* amount in the body.  gateway is what createPayment answers when it is
\* called: "fail", or a pay URL with a correlation id ("uuid") or without one
\* ("no_uuid").  The result holds the outcome, the order answered with, the
\* tables afterwards and whether createPayment was called.
octo_create(pays, ords, cs, prods, exp, u, oid, items, override, gateway) ==
    LET from_cart == items = <<>>
        lines == IF from_cart THEN CartLines(cs, u) ELSE items
        created == create_order(ords, exp, prods, u, lines, NoKey, FALSE)
        totals == get_cart_totals(cs, prods, u)
        \* the orders table once the pre-payment order exists
        with_order == IF oid # NULL THEN ords
                      ELSE IF totals.kind # "ok" THEN created.orders
                      ELSE AlignToCart(created.orders, created.id, totals.total_amount)
        id == IF oid # NULL THEN oid ELSE created.id
        amount == IF override # NULL THEN override ELSE with_order[id].total_amount
        shop_transaction_id == Len(pays) + 1
        payment_uuid == IF gateway = "uuid" THEN Len(pays) + 1 ELSE NULL
        refused(kind, tables, called) ==
            [kind |-> kind, id |-> NULL, orders |-> tables, payments |-> pays,
             called |-> called]
    IN
    IF oid = NULL /\ from_cart /\ Cardinality(CartsOf(cs, u)) > 1
    THEN refused("multiple", ords, FALSE)
    ELSE IF oid = NULL /\ from_cart /\ (CartsOf(cs, u) = {} \/ CartLines(cs, u) = <<>>)
    THEN refused("http_400", ords, FALSE)
    ELSE IF oid = NULL /\ ~LinesValid(lines)
    THEN refused(IF from_cart THEN "validation" ELSE "http_400", ords, FALSE)
    ELSE IF oid = NULL /\ created.kind # "ok"
    THEN refused(created.kind, ords, FALSE)
    ELSE IF oid = NULL /\ totals.kind # "ok"
    THEN refused(totals.kind, with_order, FALSE)
    ELSE IF ~Live(with_order, id)
    THEN refused("http_404", with_order, FALSE)
    ELSE IF with_order[id].user_id # u
    THEN refused("http_403", with_order, FALSE)
    ELSE IF PaymentRefused(with_order[id]) \/ amount <= 0
    THEN refused("http_400", with_order, FALSE)
    ELSE IF gateway = "fail"
    THEN refused("http_400", with_order, TRUE)
    ELSE [kind |-> "ok", id |-> id, called |-> TRUE,
          payments |-> create_payment(pays, shop_transaction_id, amount, id, payment_uuid),
          orders |-> IF gateway = "uuid" /\ with_order[id].payment_uuid = NULL
                     THEN update_order_payment_uuid(with_order, id, payment_uuid)
                     ELSE with_order]

create_octo_payment(u, oid, items, override, gateway) ==
    \E r \in {octo_create(payments, orders, carts, products, expired,
                          u, oid, items, override, gateway)} :
    /\ Len(r.orders) <= MaxOrders
    /\ Len(r.payments) <= MaxPayments
    /\ orders' = r.orders
    /\ payments' = r.payments
    /\ resp' = Response("octo_create", u, r.kind, r.id)
    /\ UNCHANGED <<products, carts, expired, process>>

\* POST /payments/octo/refund (admin), as a function of the orders table.
\* gateway is what refundPayment answers when it is called; it refuses a
\* non-positive amount itself.
refund(ords, oid, gateway) ==
    LET refused(kind, called) == [kind |-> kind, orders |-> ords, called |-> called] IN
    IF ~Live(ords, oid) THEN refused("http_404", FALSE)
    ELSE IF ords[oid].status = "REFUNDED" \/ ords[oid].payment_uuid = NULL
    THEN refused("http_400", FALSE)
    ELSE IF ords[oid].total_amount <= 0 \/ gateway = "fail"
    THEN refused("http_400", TRUE)
    ELSE [kind |-> "ok", called |-> TRUE,
          orders |-> update_order_status(ords, oid, "REFUNDED")]

refund_octo_payment(oid, gateway) ==
    \E r \in {refund(orders, oid, gateway)} :
    /\ orders' = r.orders
    /\ resp' = Response("octo_refund", NULL, r.kind, oid)
    /\ UNCHANGED <<products, carts, expired, payments, process>>

\* str.lower() on the status tokens the webhooks of this model carry.
Lower(status) ==
    CASE status = "PAID" -> "paid"
      [] status = "Paid" -> "paid"
      [] status = "SUCCESS" -> "success"
      [] status = "Succeeded" -> "succeeded"
      [] status = "Paid_And_Captured" -> "paid_and_captured"
      [] status = "CAPTURED" -> "captured"
      [] status = "Completed" -> "completed"
      [] status = "REFUNDED" -> "refunded"
      [] status = "Refund" -> "refund"
      [] status = "Failed" -> "failed"
      [] status = "ERROR" -> "error"
      [] status = "Cancelled" -> "cancelled"
      [] status = "CANCELED" -> "canceled"
      [] status = "Pending" -> "pending"
      [] status = "AUTHORIZED" -> "authorized"
      [] OTHER -> status

\* The vocabulary table of octo_notify.
MapStatus(status) ==
    IF status \in {"paid", "success", "succeeded", "paid_and_captured", "captured", "completed"}
    THEN "PAID"
    ELSE IF status \in {"refunded", "refund"} THEN "REFUNDED"
    ELSE IF status \in {"failed", "error"} THEN "FAILED"
    ELSE IF status \in {"cancelled", "canceled"} THEN "CANCELLED"
    ELSE "PENDING"

\* A lookup that prefers the correlation id to the shop_transaction_id.
NotifyLookupByUuidFirst(pays, payload) ==
    LET by_uuid == IF payload.payment_uuid # NULL
                   THEN get_payment_by_uuid(pays, payload.payment_uuid)
                   ELSE {}
    IN IF by_uuid = {} /\ payload.shop_transaction_id # NULL
       THEN get_payment_by_shop_tx(pays, payload.shop_transaction_id)
       ELSE by_uuid

\* The Payment rows octo_notify selects: by shop_transaction_id first, by
\* correlation id when that found none.
NotifyLookup(pays, payload) ==
    LET by_tx == IF payload.shop_transaction_id # NULL
                 THEN get_payment_by_shop_tx(pays, payload.shop_transaction_id)
                 ELSE {}
    IN IF by_tx = {} /\ payload.payment_uuid # NULL
       THEN get_payment_by_uuid(pays, payload.payment_uuid)
       ELSE by_tx

\* A webhook that moves an order only when the payment was refunded.
NotifyRefundOnly(mapped) == IF mapped = "REFUNDED" THEN "REFUNDED" ELSE ""

\* The order status octo_notify writes for a mapped payment status, "" for none.
NotifyOrderStatus(mapped) ==
    IF mapped = "PAID" THEN "PAID"
    ELSE IF mapped = "REFUNDED" THEN "REFUNDED"
    ELSE ""

\* What the database does to the side effects of a webhook: nothing
\* ("none"), or the read or the commit inside update_order_status or inside
\* clear_cart raises.  A failed commit rolls the session back, which expires
\* the Payment instance the handler still holds: reading updated.order_id
\* for the warning about the order raises out of the handler, reading it for
\* the cache invalidation is swallowed.
Faults == {"none", "order_read", "order_commit", "cart_read", "cart_commit"}

\* The payments table the handler leaves behind: update_payment_status has
\* committed before the order and the cart are touched.
PaymentsUnwound(pays, updated, failed) == IF failed THEN pays ELSE updated

PaymentsKept(pays, updated, failed) == updated

\* POST /payments/octo/notify, as a function of the tables: the tables
\* afterwards, the outcome, the order the payment is linked to and the cache
\* patterns invalidated ('orders:', and 'order:<id>:' for the order named).
\* payload.shape "object": the body parsed to a dict (an unparsable body is
\* the empty dict); any other JSON value has no .get().  payload.order_id -1:
\* an order id that int() rejects.
notify_with(pays, ords, cs, payload, fault) ==
    LET same(kind) == [kind |-> kind, order |-> NULL,
                       payments |-> pays, orders |-> ords, carts |-> cs,
                       invalidated |-> [orders |-> FALSE, order |-> NULL]]
        found == NotifyLookup(pays, payload)
        p == CHOOSE i \in found : TRUE
        binds == pays[p].order_id = NULL /\ payload.order_id > 0
        \* the payments table after the best-effort binding
        bound == IF binds /\ Live(ords, payload.order_id)
                 THEN [pays EXCEPT ![p].order_id = payload.order_id]
                 ELSE pays
        mapped == MapStatus(Lower(payload.status))
        updated == update_payment_status(bound, p, mapped, payload.payment_uuid, payload)
        oid == updated[p].order_id
        updates_order == oid # NULL /\ NotifyOrderStatus(mapped) # ""
        order_failed == updates_order /\ fault \in {"order_read", "order_commit"}
        clears_cart == oid # NULL /\ mapped = "PAID" /\ ~order_failed /\ Live(ords, oid)
        cart_failed == clears_cart /\ fault \in {"cart_read", "cart_commit"}
        \* the handler's Payment instance was expired by a rollback
        expired_instance == cart_failed /\ fault = "cart_commit"
    IN
    IF payload.shape # "object" THEN same("attribute_error")
    ELSE IF Cardinality(found) > 1 THEN same("multiple")
    ELSE IF found = {} THEN same("ok")
    ELSE IF binds /\ ~Live(ords, payload.order_id)
    THEN \* the commit fails on the foreign key, the session rolls back and
         \* expires the Payment; the log line after it reads the expired row
         same("missing_greenlet")
    ELSE IF order_failed /\ fault = "order_commit"
    THEN [kind |-> "missing_greenlet", order |-> oid,
          payments |-> PaymentsKept(pays, updated, TRUE),
          orders |-> ords, carts |-> cs,
          invalidated |-> [orders |-> FALSE, order |-> NULL]]
    ELSE [kind |-> "ok", order |-> oid,
          payments |-> PaymentsKept(pays, updated, order_failed \/ cart_failed),
          orders |-> IF updates_order /\ ~order_failed
                     THEN update_order_status(ords, oid, NotifyOrderStatus(mapped))
                     ELSE ords,
          carts |-> IF clears_cart /\ ~cart_failed
                    THEN clear_cart(cs, ords[oid].user_id).carts
                    ELSE cs,
          invalidated |-> [orders |-> TRUE,
                           order |-> IF expired_instance THEN NULL ELSE oid]]

\* The webhook when the database does not fail.
notify(pays, ords, cs, payload) == notify_with(pays, ords, cs, payload, "none")

octo_notify(payload, fault) ==
    \E r \in {notify_with(payments, orders, carts, payload, fault)} :
    /\ payments' = r.payments
    /\ orders' = r.orders
    /\ carts' = r.carts
    /\ resp' = Response("octo_notify", NULL, r.kind, r.order)
    /\ UNCHANGED <<products, expired, process>>

\* ------------------------------------------------------ the environment
\* PUT /stepups/{id} (admin): update_slipper sets the fields of the request;
\* quantity or price -1 stands for a field the request leaves unset.
update_slipper(sid, quantity, price) ==
    /\ products' = [products EXCEPT
                        ![sid].quantity = IF quantity < 0 THEN @ ELSE quantity,
                        ![sid].price = IF price < 0 THEN @ ELSE price]
    /\ resp' = Response("update_slipper", NULL, "ok", NULL)
    /\ UNCHANGED <<carts, orders, expired, payments, process>>

\* Time passes: the oldest order still inside the merge window leaves it.
TimePasses ==
    /\ expired < Len(orders)
    /\ expired' = expired + 1
    /\ resp' = Response("time", NULL, "ok", NULL)
    /\ UNCHANGED <<products, carts, orders, payments, process>>

\* ------------------------------------------------------ specifications
\* ---------------------------------------------------- services/octo.py
\* What an outbound POST comes to: client.post raises (no connection, or the
\* 20 s timeout), or resp.json() raises (the body is not JSON), or the body
\* parses to a JSON value.
Transport(kind) == [kind |-> kind, body |-> [type |-> "none"]]

Json(body) == [kind |-> "json", body |-> body]

\* A JSON object of the gateway.  A field the object does not have reads as
\* None: Absent in the number field, "" in the text fields (None and "" are
\* the same to the "or" and "not" that read them).  data is the nested
\* object, here with its octo_payment_UUID.
Absent == -1

JsonObject(error, errMessage, octo_payment_UUID, data) ==
    [type |-> "object", error |-> error, errMessage |-> errMessage,
     octo_payment_UUID |-> octo_payment_UUID, data |-> data]

JsonArray == [type |-> "array"]

ErrorCodes == {Absent, 0, 5}

GatewayObjects ==
    {JsonObject(error, errMessage, uuid, data) :
        error \in ErrorCodes, errMessage \in {"", "declined"},
        uuid \in {"", "uuid-0001"},
        data \in {[octo_payment_UUID |-> ""], [octo_payment_UUID |-> "uuid-0002"]}}

GatewayOutcomes ==
    {Transport("connect_error"), Transport("timeout"), Transport("not_json"),
     Json(JsonArray)} \cup {Json(body) : body \in GatewayObjects}

\* The settings the two calls read: whether the required ones are set, and
\* OCTO_USD_UZS_RATE (NULL: not set).
GatewaySettings ==
    {[complete |-> c, OCTO_USD_UZS_RATE |-> rate] : c \in BOOLEAN, rate \in {NULL, 2}}

\* The two ways a call ends: an exception leaves the function, or a result
\* object is returned.
Raised(exception) ==
    [raised |-> TRUE, exception |-> exception, success |-> FALSE,
     errMessage |-> "", octo_payment_UUID |-> ""]

Returned(success, errMessage, octo_payment_UUID) ==
    [raised |-> FALSE, exception |-> "", success |-> success,
     errMessage |-> errMessage, octo_payment_UUID |-> octo_payment_UUID]

\* x or y of Python on texts.
Or(x, y) == IF x # "" THEN x ELSE y

\* createPayment: the checks of the arguments and of the settings, the POST
\* inside try/except, and the reading of the parsed body outside of it.
createPayment(total_sum, settings, wire) ==
    IF total_sum <= 0
    THEN Returned(FALSE, "total_sum must be positive", "")
    ELSE IF ~settings.complete
    THEN Returned(FALSE, "Missing settings", "")
    ELSE IF wire.kind # "json"
    THEN Returned(FALSE, "HTTP error", "")
    ELSE LET data == wire.body IN
         IF data.type # "object"
         THEN Raised("AttributeError")            \* data.get on a list
         ELSE IF data.error # 0
         THEN Returned(FALSE, Or(data.errMessage, "Unknown OCTO error"), "")
         ELSE LET d == data.data
                  payment_uuid == Or(data.octo_payment_UUID, d.octo_payment_UUID)
              IN Returned(TRUE, "", payment_uuid)

\* refundPayment: the same, with the checks of the correlation id, of the
\* amount and of the 1 USD minimum first.
refundPayment(octo_payment_UUID, amount, settings, wire) ==
    IF octo_payment_UUID = ""
    THEN Returned(FALSE, "payment UUID required", "")
    ELSE IF amount <= 0
    THEN Returned(FALSE, "amount must be positive", "")
    ELSE IF settings.OCTO_USD_UZS_RATE # NULL /\ amount < settings.OCTO_USD_UZS_RATE
    THEN Returned(FALSE, "Minimum refund", "")
    ELSE IF ~settings.complete
    THEN Returned(FALSE, "Missing settings", "")
    ELSE IF wire.kind # "json"
    THEN Returned(FALSE, "HTTP error", "")
    ELSE LET data == wire.body IN
         IF data.type # "object"
         THEN Raised("AttributeError")
         ELSE IF data.error # 0
         THEN Returned(FALSE, Or(data.errMessage, "Unknown OCTO error"), "")
         ELSE Returned(TRUE, "", "")

\* A call of the gateway client: what it was given and what came of it.
Call(fn, valid, wire, result) ==
    [fn |-> fn, valid |-> valid, wire |-> wire, result |-> result]

NoCall == Call("none", TRUE, Transport("none"), Returned(TRUE, "", ""))

call_createPayment(total_sum, settings, wire) ==
    /\ outbound' = Call("createPayment", total_sum > 0 /\ settings.complete, wire,
                        createPayment(total_sum, settings, wire))
    /\ UNCHANGED <<products, carts, orders, expired, payments, resp, sessions,
                   cache, lock, tasks, clock>>

call_refundPayment(octo_payment_UUID, amount, settings, wire) ==
    /\ outbound' = Call("refundPayment",
                        /\ octo_payment_UUID # "" /\ amount > 0 /\ settings.complete
                        /\ (settings.OCTO_USD_UZS_RATE # NULL
                               => amount >= settings.OCTO_USD_UZS_RATE),
                        wire,
                        refundPayment(octo_payment_UUID, amount, settings, wire))
    /\ UNCHANGED <<products, carts, orders, expired, payments, resp, sessions,
                   cache, lock, tasks, clock>>

\* -------------------------------------------------------- core/cache.py
MaxStored == 3      \* entries a task stores
MaxClock == 2       \* seconds that pass

\* Cache keys and patterns are strings, here sequences of characters:
\* "orders:1" and "user:1".
OrdersKey == <<"o", "r", "d", "e", "r", "s", ":", "1">>

UserKey == <<"u", "s", "e", "r", ":", "1">>

CacheKeys == {OrdersKey, UserKey}

\* The patterns "orders:", which the first key contains, and "r:", which the
\* second key contains.
Patterns == {<<"o", "r", "d", "e", "r", "s", ":">>, <<"r", ":">>}

\* A match of the whole key only.
ContainsWhole(pattern, key) == pattern = key

\* pattern in key: pattern is a substring of key.
Contains(pattern, key) ==
    \E i \in 0..(Len(key) - Len(pattern)) :
        SubSeq(key, i + 1, i + Len(pattern)) = pattern

\* An entry {'value': .., 'expires': ..}.  The value tells the entries
\* apart: the n-th entry stored by task `by`.  NoEntry: the key is not in
\* the map.
Entry(by, n, expires) == [by |-> by, n |-> n, expires |-> expires]

NoEntry == Entry(NULL, 0, 0)

EmptyCache == [key \in CacheKeys |-> NoEntry]

\* Task 1 calls invalidate_cache_pattern, task 2 calls get, set and delete.
Invalidator == 1

CacheTasks == {1, 2}

TTLs == {1, 2}

\* Where a task stands: the call it is in (pc), the locals of the call, the
\* number of entries it has stored, and for invalidate_cache_pattern the map
\* as it was when the call began.
Task(pc, key, expires, current_time, keys_to_delete, began, stored) ==
    [pc |-> pc, key |-> key, expires |-> expires, current_time |-> current_time,
     keys_to_delete |-> keys_to_delete, began |-> began, stored |-> stored]

Idle(stored) == Task("idle", <<>>, 0, 0, {}, EmptyCache, stored)

\* The calls that wait for the lock before they touch the map.
Locking == {"get", "set", "delete", "cleanup_expired", "collect", "delete_keys"}

\* async with self._lock: the lock is taken when it is free.
acquire(t) ==
    /\ tasks[t].pc \in Locking
    /\ lock = NULL
    /\ lock' = t
    /\ UNCHANGED <<products, carts, orders, expired, payments, resp, sessions,
                   outbound, cache, tasks, clock>>

\* The calls begin: the arguments and what is computed before the lock.
call_get(t, key) ==
    /\ t # Invalidator /\ tasks[t].pc = "idle"
    /\ tasks' = [tasks EXCEPT ![t] =
                    Task("get", key, 0, 0, {}, EmptyCache, tasks[t].stored)]
    /\ UNCHANGED <<products, carts, orders, expired, payments, resp, sessions,
                   outbound, cache, lock, clock>>

call_set(t, key, ttl) ==
    /\ t # Invalidator /\ tasks[t].pc = "idle"
    /\ tasks[t].stored < MaxStored
    /\ tasks' = [tasks EXCEPT ![t] =
                    Task("set", key, clock + ttl, 0, {}, EmptyCache, tasks[t].stored)]
    /\ UNCHANGED <<products, carts, orders, expired, payments, resp, sessions,
                   outbound, cache, lock, clock>>

call_delete(t, key) ==
    /\ t # Invalidator /\ tasks[t].pc = "idle"
    /\ tasks' = [tasks EXCEPT ![t] =
                    Task("delete", key, 0, 0, {}, EmptyCache, tasks[t].stored)]
    /\ UNCHANGED <<products, carts, orders, expired, payments, resp, sessions,
                   outbound, cache, lock, clock>>

\* invalidate_cache_pattern begins with cache.cleanup_expired(), which reads
\* the time before it takes the lock.
call_invalidate_cache_pattern(t, pattern) ==
    /\ t = Invalidator /\ tasks[t].pc = "idle"
    /\ tasks' = [tasks EXCEPT ![t] =
                    Task("cleanup_expired", pattern, 0, clock, {}, cache,
                         tasks[t].stored)]
    /\ UNCHANGED <<products, carts, orders, expired, payments, resp, sessions,
                   outbound, cache, lock, clock>>

\* The bodies under the lock; leaving the body releases the lock.
get(t) ==
    /\ tasks[t].pc = "get" /\ lock = t
    /\ cache' = IF cache[tasks[t].key] # NoEntry /\ ~(clock < cache[tasks[t].key].expires)
                 THEN [cache EXCEPT ![tasks[t].key] = NoEntry]
                 ELSE cache
    /\ tasks' = [tasks EXCEPT ![t] = Idle(tasks[t].stored)]
    /\ lock' = NULL
    /\ UNCHANGED <<products, carts, orders, expired, payments, resp, sessions, outbound, clock>>

set(t) ==
    /\ tasks[t].pc = "set" /\ lock = t
    /\ cache' = [cache EXCEPT ![tasks[t].key] =
                    Entry(t, tasks[t].stored + 1, tasks[t].expires)]
    /\ tasks' = [tasks EXCEPT ![t] = Idle(tasks[t].stored + 1)]
    /\ lock' = NULL
    /\ UNCHANGED <<products, carts, orders, expired, payments, resp, sessions, outbound, clock>>

delete(t) ==
    /\ tasks[t].pc = "delete" /\ lock = t
    /\ cache' = [cache EXCEPT ![tasks[t].key] = NoEntry]
    /\ tasks' = [tasks EXCEPT ![t] = Idle(tasks[t].stored)]
    /\ lock' = NULL
    /\ UNCHANGED <<products, carts, orders, expired, payments, resp, sessions, outbound, clock>>

cleanup_expired(t) ==
    /\ tasks[t].pc = "cleanup_expired" /\ lock = t
    /\ cache' = [key \in CacheKeys |->
                    IF cache[key] # NoEntry /\ tasks[t].current_time >= cache[key].expires
                    THEN NoEntry
                    ELSE cache[key]]
    /\ tasks' = [tasks EXCEPT ![t].pc = "collect"]
    /\ lock' = NULL
    /\ UNCHANGED <<products, carts, orders, expired, payments, resp, sessions, outbound, clock>>

\* The keys that match are collected under the lock and deleted after it is
\* released, one cache.delete(key) at a time (here in any order).
collect(t) ==
    /\ tasks[t].pc = "collect" /\ lock = t
    /\ \E keys_to_delete \in
            {{key \in CacheKeys : cache[key] # NoEntry /\ Contains(tasks[t].key, key)}} :
          tasks' = [tasks EXCEPT ![t].keys_to_delete = keys_to_delete,
                                 ![t].pc = IF keys_to_delete = {} THEN "returned"
                                           ELSE "delete_keys"]
    /\ lock' = NULL
    /\ UNCHANGED <<products, carts, orders, expired, payments, resp, sessions,
                   outbound, cache, clock>>

delete_keys(t) ==
    /\ tasks[t].pc = "delete_keys" /\ lock = t
    /\ \E key \in tasks[t].keys_to_delete :
          /\ cache' = [cache EXCEPT ![key] = NoEntry]
          /\ tasks' = [tasks EXCEPT ![t].keys_to_delete = @ \ {key},
                                    ![t].pc = IF tasks[t].keys_to_delete = {key}
                                              THEN "returned" ELSE "delete_keys"]
    /\ lock' = NULL
    /\ UNCHANGED <<products, carts, orders, expired, payments, resp, sessions, outbound, clock>>

\* invalidate_cache_pattern has returned; the task goes on.
return_invalidate_cache_pattern(t) ==
    /\ tasks[t].pc = "returned"
    /\ tasks' = [tasks EXCEPT ![t] = Idle(tasks[t].stored)]
    /\ UNCHANGED <<products, carts, orders, expired, payments, resp, sessions,
                   outbound, cache, lock, clock>>

\* A second passes.
Tick ==
    /\ clock < MaxClock
    /\ clock' = clock + 1
    /\ UNCHANGED <<products, carts, orders, expired, payments, resp, sessions,
                   outbound, cache, lock, tasks>>

\* ------------------------------------------- two requests in flight
\* Each request has its own AsyncSession; the crud call of a request reads
\* and writes the tables at its awaits, and the call of the other request
\* may run between any two of them.
Sessions == {1, 2}

\* The Cart an add_item has loaded, with its items as they were read.
LoadedCart(id, items) == [id |-> id, items |-> items]

NoCart == LoadedCart(NULL, <<>>)

\* Where the call of a session stands: the function and its arguments (for
\* add_item the one line to add), the cart it has loaded, the number of
\* orders in the table when its stock validation ran, how it ended (kind,
\* and the order returned), and the pieces its add_item calls have added.
Session(fn, pc, user, key, lines, cart, validated_at, kind, id, added) ==
    [fn |-> fn, pc |-> pc, user |-> user, key |-> key, lines |-> lines,
     cart |-> cart, validated_at |-> validated_at, kind |-> kind, id |-> id,
     added |-> added]

IdleSession(added) == Session("none", "idle", NULL, NoKey, <<>>, NoCart, 0, "", NULL, added)

\* The call ends: it returns ("ok") or raises.
Ended(call, kind, id, added) ==
    [call EXCEPT !.pc = IF kind = "ok" THEN "returned" ELSE "raised",
                 !.kind = kind, !.id = id, !.added = added]

call_create_order(s, u, lines, key) ==
    /\ sessions[s].pc = "idle"
    /\ sessions' = [sessions EXCEPT ![s] =
                       Session("create_order", "lookup", u, key, lines, NoCart, 0,
                               "", NULL, sessions[s].added)]
    /\ UNCHANGED <<products, carts, orders, expired, payments, resp,
                   outbound, cache, lock, tasks, clock>>

\* The idempotency lookup.
create_order_lookup(s) ==
    LET call == sessions[s]
        existing == ExistingByKey(orders, call.user, call.key)
    IN
    /\ call.fn = "create_order" /\ call.pc = "lookup"
    /\ sessions' = [sessions EXCEPT ![s] =
                       IF call.key # NoKey /\ existing # {}
                       THEN Ended(call, "ok", CHOOSE i \in existing : TRUE, call.added)
                       ELSE [call EXCEPT !.pc = "validate"]]
    /\ UNCHANGED <<products, carts, orders, expired, payments, resp,
                   outbound, cache, lock, tasks, clock>>

\* First pass: the products exist and the requested quantities are in stock.
create_order_validate(s) ==
    LET call == sessions[s]
        v == ValidateFresh(StockView(orders, products), call.lines,
                           ItemIds(call.lines, <<>>))
    IN
    /\ call.fn = "create_order" /\ call.pc = "validate"
    /\ sessions' = [sessions EXCEPT ![s] =
                       IF v.kind # "ok"
                       THEN Ended(call, v.kind, NULL, call.added)
                       ELSE [call EXCEPT !.pc = "commit",
                                         !.validated_at = Len(orders)]]
    /\ UNCHANGED <<products, carts, orders, expired, payments, resp,
                   outbound, cache, lock, tasks, clock>>

\* The order and its items are inserted and committed; the unique index on
\* the idempotency key refuses a second order with the key.
create_order_commit(s) ==
    LET call == sessions[s] IN
    /\ call.fn = "create_order" /\ call.pc = "commit"
    /\ \E r \in {FreshOrder(orders, products, call.user, call.lines, call.key)} :
          /\ Len(r.orders) <= MaxOrders
          /\ orders' = r.orders
          /\ sessions' = [sessions EXCEPT ![s] = Ended(call, r.kind, r.id, call.added)]
    /\ UNCHANGED <<products, carts, expired, payments, resp,
                   outbound, cache, lock, tasks, clock>>

call_add_item(s, u, sid, quantity) ==
    /\ sessions[s].pc = "idle"
    /\ sessions' = [sessions EXCEPT ![s] =
                       Session("add_item", "get_or_create_cart", u, NoKey,
                               <<[slipper_id |-> sid, quantity |-> quantity]>>, NoCart, 0, "", NULL,
                               sessions[s].added)]
    /\ UNCHANGED <<products, carts, orders, expired, payments, resp,
                   outbound, cache, lock, tasks, clock>>

\* get_or_create_cart: the query for the user's cart with its items.
add_item_load_cart(s) ==
    LET call == sessions[s]
        found == CartsOf(carts, call.user)
        c == CHOOSE i \in found : TRUE
    IN
    /\ call.fn = "add_item" /\ call.pc = "get_or_create_cart"
    /\ sessions' = [sessions EXCEPT ![s] =
                       IF Cardinality(found) > 1
                       THEN Ended(call, "multiple", NULL, call.added)
                       ELSE IF found = {}
                       THEN [call EXCEPT !.pc = "create_cart"]
                       ELSE [call EXCEPT !.pc = "merge_line",
                                         !.cart = LoadedCart(c, carts[c].items)]]
    /\ UNCHANGED <<products, carts, orders, expired, payments, resp,
                   outbound, cache, lock, tasks, clock>>

\* get_or_create_cart: no cart was found, one is inserted and committed; the
\* unique index uq_carts_user refuses a second cart of the user.
add_item_create_cart(s) ==
    LET call == sessions[s] IN
    /\ call.fn = "add_item" /\ call.pc = "create_cart"
    /\ IF CartsOf(carts, call.user) # {}
       THEN /\ sessions' = [sessions EXCEPT ![s] =
                               Ended(call, "integrity", NULL, call.added)]
            /\ UNCHANGED carts
       ELSE /\ carts' = Append(carts, [user_id |-> call.user, items |-> <<>>])
            /\ sessions' = [sessions EXCEPT ![s] =
                               [call EXCEPT !.pc = "merge_line",
                                            !.cart = LoadedCart(Len(carts) + 1, <<>>)]]
    /\ UNCHANGED <<products, orders, expired, payments, resp,
                   outbound, cache, lock, tasks, clock>>

\* The loop over the items the session loaded, the stock test and the
\* commit: the line found is set to new_qty, or a new line is inserted,
\* which the unique index uq_cart_items_cart_slipper refuses when the cart
\* has a line of the product by now.
add_item_merge_line(s) ==
    LET call == sessions[s]
        sid == call.lines[1].slipper_id
        quantity == call.lines[1].quantity
        k == CartLine(call.cart.items, sid)
        new_qty == IF k = 0 THEN quantity ELSE call.cart.items[k].quantity + quantity
        stored == carts[call.cart.id].items
        row == CartLine(stored, sid)
        kind == IF sid \notin DOMAIN products THEN "not_found"
                ELSE IF CartStockExceeded(new_qty, products[sid].quantity) THEN "stock"
                ELSE IF k = 0 /\ row # 0 THEN "integrity"
                ELSE "ok"
    IN
    /\ call.fn = "add_item" /\ call.pc = "merge_line"
    /\ carts' = IF kind # "ok" THEN carts
                 ELSE IF k = 0
                 THEN [carts EXCEPT ![call.cart.id].items =
                          Append(stored, [slipper_id |-> sid, quantity |-> new_qty])]
                 ELSE [carts EXCEPT ![call.cart.id].items[row].quantity = new_qty]
    /\ sessions' = [sessions EXCEPT ![s] =
                       Ended(call, kind, NULL,
                             IF kind = "ok" THEN call.added + quantity ELSE call.added)]
    /\ UNCHANGED <<products, orders, expired, payments, resp,
                   outbound, cache, lock, tasks, clock>>

\* The request of the session is answered; the session is closed.
close_session(s) ==
    /\ sessions[s].pc \in {"returned", "raised"}
    /\ sessions' = [sessions EXCEPT ![s] = IdleSession(sessions[s].added)]
    /\ UNCHANGED <<products, carts, orders, expired, payments, resp,
                   outbound, cache, lock, tasks, clock>>

InitProcess ==
    /\ outbound = NoCall
    /\ cache = EmptyCache
    /\ lock = NULL
    /\ tasks = [t \in CacheTasks |-> Idle(0)]
    /\ clock = 0
    /\ sessions = [s \in Sessions |-> IdleSession(0)]

Init ==
    /\ products = [s \in Slippers |-> [quantity |-> 2, price |-> 10 * s]]
    /\ carts = <<>>
    /\ orders = <<>>
    /\ expired = 0
    /\ payments = <<>>
    /\ resp = Response("init", NULL, "ok", NULL)
    /\ InitProcess

\* Requests of 1..MaxLines lines drawn from a set of lines.
Requests(L) == UNION {[1..n -> L] : n \in 1..MaxLines}

Line(sid, quantity) == [slipper_id |-> sid, quantity |-> quantity]

\* Order creation through POST /orders while the stock changes: lines for
\* each product of the catalog in quantities 1 and 2 and for a product the
\* catalog does not hold.
OrderKeys == {NoKey, "k1"}
OrderQuantities == {1, 2}
OrderLines ==
    {Line(sid, q) : sid \in Slippers, q \in OrderQuantities}
        \cup {Line(Max(Slippers) + 1, 1)}

NextOrders ==
    \/ \E u \in Users, key \in OrderKeys, merge \in BOOLEAN, lines \in Requests(OrderLines) :
            create_order_endpoint(u, lines, key, merge)
    \/ \E quantity \in OrderQuantities : update_slipper(1, quantity, -1)

SpecOrders == Init /\ [][NextOrders]_vars

\* The payment lifecycle of one purchaser (user 1): the cart is filled,
\* orders are created from the cart or by the order-less payment request,
\* payment intents are created and refunded, the gateway calls back, and the
\* owner or another user sends PUT /orders/{id}.
Payload(shape, shop_transaction_id, payment_uuid, status, order_id) ==
    [shape |-> shape, shop_transaction_id |-> shop_transaction_id,
     payment_uuid |-> payment_uuid, status |-> status, order_id |-> order_id]

NotifyStatuses == {"Succeeded", "refunded"}

\* Webhook bodies: a status for either correlation id, a body that names the
\* first payment by shop_transaction_id with the correlation id of the last
\* one, and a JSON array.
NotifyPayloads ==
    {Payload("object", NULL, uuid, status, NULL) :
        uuid \in 1..MaxPayments, status \in NotifyStatuses}
        \cup {Payload("object", 1, MaxPayments, "Succeeded", NULL),
              Payload("array", NULL, NULL, "", NULL)}

Next ==
    \/ add_cart_item(1, 1, 1)
    \/ create_order_from_cart(1, FALSE)
    \/ \E oid \in 0..MaxOrders, items \in {<<>>, <<Line(2, 1)>>},
          gateway \in {"fail", "uuid"} :
            create_octo_payment(1, oid, items, NULL, gateway)
    \/ \E oid \in 1..MaxOrders, gateway \in {"fail", "ok"} :
            refund_octo_payment(oid, gateway)
    \/ \E payload \in NotifyPayloads : octo_notify(payload, "none")
    \/ \E u \in Users, oid \in 1..MaxOrders :
            update_order_endpoint(u, FALSE, oid, "PENDING", -1)

Spec == Init /\ [][Next]_vars

\* The cart requests of two users, one after another: product 1 is added one
\* at a time, product 2 in the largest quantity the schema admits while its
\* stock is small or large, and a product the catalog does not hold is asked
\* for; lines are set to 0, 1 or the schema maximum, removed, and the cart
\* is cleared.
CartAdds ==
    {Line(1, 1), Line(2, MaxCartQuantity), Line(Max(Slippers) + 1, 1)}

CartUpdates == {0, 1, MaxCartQuantity}

CartStocks == {2, 2 * MaxCartQuantity}

\* Positions naming a line of a cart, and one past any cart.
CartPositions == 1..(Cardinality(Slippers) + 1)

\* The cart_item_ids of the requests: the lines of every user's cart, and
\* ids no cart holds.
CartItemIds ==
    {CartItemId(c, k) : c \in 1..(Cardinality(Users) + 1), k \in CartPositions}

NextCart ==
    \/ \E u \in Users, add \in CartAdds : add_cart_item(u, add.slipper_id, add.quantity)
    \/ \E u \in Users, id \in CartItemIds, quantity \in CartUpdates :
            update_cart_item(u, id, quantity)
    \/ \E u \in Users, id \in CartItemIds : delete_cart_item(u, id)
    \/ \E u \in Users : clear_my_cart(u)
    \/ \E quantity \in CartStocks : update_slipper(2, quantity, -1)

SpecCart == Init /\ [][NextCart]_vars

\* The cart requests against a database that held two cart rows of user 1
\* before the unique index on carts(user_id) was introduced: init_db's
\* CREATE UNIQUE INDEX fails on the duplicates, the failure is swallowed and
\* the rows stay as they are.
InitLegacy ==
    /\ products = [s \in Slippers |-> [quantity |-> 2, price |-> 10 * s]]
    /\ carts = <<[user_id |-> 1, items |-> <<[slipper_id |-> 1, quantity |-> 1]>>],
                 [user_id |-> 1, items |-> <<>>]>>
    /\ orders = <<>>
    /\ expired = 0
    /\ payments = <<>>
    /\ resp = Response("init", NULL, "ok", NULL)
    /\ InitProcess

SpecLegacy == InitLegacy /\ [][NextCart]_vars

\* Checkout while the stock of product 1 changes: user 1 fills the cart one
\* piece at a time and creates orders with POST /orders, with POST
\* /orders/from-cart (clearing the cart or not) and with the order-less
\* payment request, for lines the stock covers, lines it does not cover and
\* a product the catalog does not hold; user 2 keeps a cart of their own.
CheckoutLines == {<<Line(1, 2)>>, <<Line(Max(Slippers) + 1, 1)>>}

NextCheckout ==
    \/ \E u \in Users : add_cart_item(u, 1, 1)
    \/ \E lines \in CheckoutLines, merge \in BOOLEAN :
            create_order_endpoint(1, lines, NoKey, merge)
    \/ \E clear \in BOOLEAN : create_order_from_cart(1, clear)
    \/ \E items \in CheckoutLines \cup {<<>>}, gateway \in {"fail", "uuid"} :
            create_octo_payment(1, NULL, items, NULL, gateway)
    \/ \E quantity \in {1, 2} : update_slipper(1, quantity, -1)

SpecCheckout == Init /\ [][NextCheckout]_vars

\* Orders of two users that are created fresh or merged while time passes,
\* the first order is paid for and an admin sets an order to PAID.  A
\* request names one product, two products or one product on two lines.
MergeRequests ==
    {<<Line(1, 1)>>, <<Line(1, 1), Line(2, 1)>>, <<Line(2, 1), Line(2, 1)>>}

NextMerge ==
    \/ \E u \in Users, lines \in MergeRequests, key \in OrderKeys, merge \in BOOLEAN :
            create_order_endpoint(u, lines, key, merge)
    \/ TimePasses
    \/ create_octo_payment(1, 1, <<>>, NULL, "uuid")
    \/ \E oid \in 1..MaxOrders : update_order_endpoint(1, TRUE, oid, "PAID", -1)

SpecMerge == Init /\ [][NextMerge]_vars

\* Orders of user 1 that are created fresh or merged while the catalog
\* prices change.
PricedRequests == {<<Line(1, 1)>>, <<Line(2, 1)>>, <<Line(1, 1), Line(2, 1)>>}

CatalogPrices == {10, 15}

NextPrices ==
    \/ \E lines \in PricedRequests, merge \in BOOLEAN :
            create_order_endpoint(1, lines, NoKey, merge)
    \/ \E sid \in Slippers, price \in CatalogPrices : update_slipper(sid, -1, price)

SpecPrices == Init /\ [][NextPrices]_vars

\* The cache under two tasks: one invalidates patterns, the other gets,
\* sets and deletes keys, while time passes.
NextCache ==
    \/ \E t \in CacheTasks : acquire(t)
    \/ \E t \in CacheTasks, key \in CacheKeys : call_get(t, key)
    \/ \E t \in CacheTasks, key \in CacheKeys, ttl \in TTLs : call_set(t, key, ttl)
    \/ \E t \in CacheTasks, key \in CacheKeys : call_delete(t, key)
    \/ \E t \in CacheTasks, pattern \in Patterns : call_invalidate_cache_pattern(t, pattern)
    \/ \E t \in CacheTasks : get(t)
    \/ \E t \in CacheTasks : set(t)
    \/ \E t \in CacheTasks : delete(t)
    \/ \E t \in CacheTasks : cleanup_expired(t)
    \/ \E t \in CacheTasks : collect(t)
    \/ \E t \in CacheTasks : delete_keys(t)
    \/ \E t \in CacheTasks : return_invalidate_cache_pattern(t)
    \/ Tick

SpecCache == Init /\ [][NextCache]_vars

\* The stock of product 1 under every kind of request of one purchaser
\* (user 1): cart lines are added, set, removed and cleared, orders are
\* created with and without the merge and from the cart, payments are
\* requested, reported captured by the gateway and refunded, and the admin
\* sets the stock.
NextStock ==
    \/ add_cart_item(1, 1, 1)
    \/ \E quantity \in {0, 2} : update_cart_item(1, CartItemId(1, 1), quantity)
    \/ delete_cart_item(1, CartItemId(1, 1))
    \/ clear_my_cart(1)
    \/ \E merge \in BOOLEAN : create_order_endpoint(1, <<Line(1, 1)>>, NoKey, merge)
    \/ \E clear \in BOOLEAN : create_order_from_cart(1, clear)
    \/ \E oid \in 1..MaxOrders, gateway \in {"fail", "uuid"} :
            create_octo_payment(1, oid, <<>>, NULL, gateway)
    \/ \E oid \in 1..MaxOrders : refund_octo_payment(oid, "ok")
    \/ octo_notify(Payload("object", NULL, 1, "Succeeded", NULL), "none")
    \/ \E quantity \in {1, 2} : update_slipper(1, quantity, -1)

SpecStock == Init /\ [][NextStock]_vars

\* Two requests of user 1 in flight at once, against a stock of 3 pieces of
\* each product: orders of 2 pieces of product 1 with and without an
\* idempotency key, and single pieces of product 1 added to the cart.
InitRace ==
    /\ products = [s \in Slippers |-> [quantity |-> 3, price |-> 10 * s]]
    /\ carts = <<>>
    /\ orders = <<>>
    /\ expired = 0
    /\ payments = <<>>
    /\ resp = Response("init", NULL, "ok", NULL)
    /\ InitProcess

NextRace ==
    \/ \E s \in Sessions, key \in OrderKeys : call_create_order(s, 1, <<Line(1, 2)>>, key)
    \/ \E s \in Sessions : create_order_lookup(s)
    \/ \E s \in Sessions : create_order_validate(s)
    \/ \E s \in Sessions : create_order_commit(s)
    \/ \E s \in Sessions : call_add_item(s, 1, 1, 1)
    \/ \E s \in Sessions : add_item_load_cart(s)
    \/ \E s \in Sessions : add_item_create_cart(s)
    \/ \E s \in Sessions : add_item_merge_line(s)
    \/ \E s \in Sessions : close_session(s)

SpecRace == InitRace /\ [][NextRace]_vars

\* The gateway client alone: both calls with valid and invalid arguments,
\* with and without the settings, against every outcome of the POST.
NextGateway ==
    \/ \E total_sum \in {0, 30}, settings \in GatewaySettings, wire \in GatewayOutcomes :
            call_createPayment(total_sum, settings, wire)
    \/ \E uuid \in {"", "uuid-0001"}, amount \in {0, 1, 30},
          settings \in GatewaySettings, wire \in GatewayOutcomes :
            call_refundPayment(uuid, amount, settings, wire)

SpecGateway == Init /\ [][NextGateway]_vars

\* The payments of one purchaser (user 1) under every kind of request: the
\* cart is filled and cleared, orders are created with and without the
\* merge, payment intents are requested for an order that exists, again and
\* again, and refunded, the owner updates and deletes orders, and the gateway
\* reports the first payment captured.
NextPayments ==
    \/ add_cart_item(1, 1, 1)
    \/ clear_my_cart(1)
    \/ \E merge \in BOOLEAN : create_order_endpoint(1, <<Line(1, 1)>>, NoKey, merge)
    \/ \E oid \in 1..MaxOrders, gateway \in {"fail", "uuid"} :
            create_octo_payment(1, oid, <<>>, NULL, gateway)
    \/ \E oid \in 1..MaxOrders, gateway \in {"fail", "ok"} :
            refund_octo_payment(oid, gateway)
    \/ \E oid \in 1..MaxOrders : update_order_endpoint(1, FALSE, oid, "PENDING", -1)
    \/ \E oid \in 1..MaxOrders : delete_order_endpoint(1, FALSE, oid)
    \/ octo_notify(Payload("object", NULL, 1, "Succeeded", NULL), "none")

SpecPayments == Init /\ [][NextPayments]_vars

\* The gateway's callbacks against the payments of one purchaser (user 1)
\* while the database may fail under the side effects: payments are created
\* with the order-less request or for an order that exists, orders are
\* deleted (which unlinks their payments), and the webhook arrives with
\* bodies that name a payment by either id or by both, that report a payment
\* or a refund, that embed an order id no order has, and with a JSON array.
NotifyBodies ==
    {Payload("object", 1, NULL, "Succeeded", NULL),
     Payload("object", MaxPayments, NULL, "REFUNDED", NULL),
     Payload("object", 1, NULL, "Succeeded", MaxOrders + 1),
     Payload("object", MaxPayments + 1, MaxPayments, "CAPTURED", NULL),
     Payload("object", 1, MaxPayments, "Paid", NULL),
     Payload("array", NULL, NULL, "", NULL)}

NextNotify ==
    \/ add_cart_item(1, 1, 1)
    \/ \E oid \in 0..MaxOrders : create_octo_payment(1, oid, <<>>, NULL, "uuid")
    \/ \E oid \in 1..MaxOrders : delete_order_endpoint(1, FALSE, oid)
    \/ \E payload \in NotifyBodies, fault \in Faults : octo_notify(payload, fault)

SpecNotify == Init /\ [][NextNotify]_vars

\* ------------------------------------------------------------ properties
\* The orders a request may address, and the statuses of all of them.
OrderIds == 1..Len(orders)

\* C1: once an order is REFUNDED, no webhook delivery makes it PAID.
C1_RefundedNeverPaidByWebhook ==
    [][resp'.op = "octo_notify" =>
          \A oid \in OrderIds :
              orders[oid].status = "REFUNDED" => orders'[oid].status # "PAID"]_vars

\* C2: in every reachable state, handling any webhook payload twice in
\* immediate succession leaves every payment row, every order status and
\* every cart as the first handling left them, and the second handling
\* answers {ok: true}.
C2_WebhookReplay ==
    \A payload \in NotifyPayloads :
        LET first == notify(payments, orders, carts, payload)
            second == notify(first.payments, first.orders, first.carts, payload)
        IN /\ second.payments = first.payments
           /\ \A oid \in 1..Len(first.orders) :
                  second.orders[oid].status = first.orders[oid].status
           /\ second.carts = first.carts
           /\ second.kind = "ok"

\* C3: every persisted order's total_amount is the sum of total_price over
\* its items.
C3_TotalIsSumOfItems ==
    \A oid \in OrderIds :
        Live(orders, oid) => orders[oid].total_amount = ItemTotals(orders[oid].items)

\* Catalogs the second of two calls may read: the current one, and one with
\* the stock and the price of product 1 changed.
Catalogs ==
    {products, [products EXCEPT ![1].quantity = 1, ![1].price = 15]}

\* C4: two sequential create_order calls with the same user and idempotency
\* key return the same order id and the second writes nothing, whatever
\* items it carries and whatever the stock and prices are by then.
C4_IdempotentCreate ==
    \A u \in Users, key \in OrderKeys \ {NoKey}, merge1, merge2 \in BOOLEAN,
       lines1, lines2 \in Requests(OrderLines), prods2 \in Catalogs :
        LET first == create_order(orders, expired, products, u, lines1, key, merge1)
            second == create_order(first.orders, expired, prods2, u, lines2, key, merge2)
        IN first.kind = "ok" =>
              /\ second.kind = "ok"
              /\ second.id = first.id
              /\ second.orders = first.orders

\* C5: whenever create_order commits, every item it wrote (new, or grown by
\* the merge) holds at most the stock of its product read by that call.
C5_StockInvariant ==
    [][(resp'.op = "create_order" /\ resp'.kind = "ok") =>
          LET id == resp'.order
              before == IF id \in OrderIds THEN orders[id].items ELSE <<>>
              after == orders'[id].items
          IN /\ UniqueItems(after)
             /\ \A k \in 1..Len(after) :
                    (k > Len(before) \/ before[k] # after[k]) =>
                        after[k].quantity <= products[after[k].slipper_id].quantity]_vars

\* C5 witness: create_order committed an order one of whose items holds the
\* whole stock of its product, two or more of it.
C5_Witness ==
    /\ resp.op = "create_order" /\ resp.kind = "ok"
    /\ \E k \in 1..Len(orders[resp.order].items) :
           LET item == orders[resp.order].items[k] IN
           item.quantity >= 2 /\ item.quantity = products[item.slipper_id].quantity

\* The quantity a request asks of a product: its lines for it, each capped
\* at the per-line maximum, added up.
AggregatedQuantity(lines, sid) ==
    SumSeq([i \in 1..Len(lines) |->
                IF lines[i].slipper_id = sid
                THEN (IF lines[i].quantity > ORDER_MAX_QTY_PER_ITEM
                      THEN ORDER_MAX_QTY_PER_ITEM ELSE lines[i].quantity)
                ELSE 0])

Offending(lines, sid) ==
    sid \notin DOMAIN products \/ AggregatedQuantity(lines, sid) > products[sid].quantity

\* C6: on the fresh path, a request with a product that does not exist or
\* whose aggregated quantity exceeds the stock fails and leaves the order
\* and item tables as they were, wherever the offending line stands; a stock
\* error names the product, its aggregated quantity and the stock.
C6_FreshPathAtomicFailure ==
    \A u \in Users, key \in OrderKeys, merge \in BOOLEAN, lines \in Requests(OrderLines) :
        LET r == create_order(orders, expired, products, u, lines, key, merge)
            fresh == /\ ~(key # NoKey /\ \E i \in OrderIds :
                                orders[i].user_id = u /\ orders[i].idempotency_key = key)
                     /\ ~(merge /\ \E i \in OrderIds :
                                /\ orders[i].user_id = u
                                /\ orders[i].status = "PENDING"
                                /\ orders[i].payment_uuid = NULL
                                /\ i > expired)
        IN (fresh /\ \E i \in 1..Len(lines) : Offending(lines, lines[i].slipper_id)) =>
              /\ r.kind \in {"not_found", "stock"}
              /\ r.orders = orders
              /\ r.kind = "stock" =>
                    \E i \in 1..Len(lines) :
                        LET sid == lines[i].slipper_id IN
                        /\ sid \in DOMAIN products
                        /\ r.detail = <<sid, AggregatedQuantity(lines, sid),
                                        products[sid].quantity>>
                        /\ AggregatedQuantity(lines, sid) > products[sid].quantity
              /\ r.kind = "not_found" =>
                    \E i \in 1..Len(lines) :
                        /\ lines[i].slipper_id \notin DOMAIN products
                        /\ r.detail = <<lines[i].slipper_id>>

\* C6 witness: create_order refused a request for lack of stock on the fresh
\* path (the caller owns no order it could merge into) while orders of
\* another user exist.
C6_Witness ==
    /\ resp.op = "create_order" /\ resp.kind = "stock" /\ resp.order = NULL
    /\ orders # <<>>
    /\ \A oid \in OrderIds : orders[oid].user_id # resp.user

\* C7: every order create_order returns belongs to the requesting user, and
\* the call leaves the orders of every other user as they were.
C7_NoCrossUserOrder ==
    [][resp'.op = "create_order" =>
          /\ resp'.kind = "ok" => orders'[resp'.order].user_id = resp'.user
          /\ \A oid \in OrderIds :
                 orders[oid].user_id # resp'.user => orders'[oid] = orders[oid]]_vars

\* C7 witness: user 2, who owns no order, called create_order while an
\* order of user 1 holds the idempotency key, and was not given that order.
C7_Witness ==
    /\ resp.op = "create_order" /\ resp.user = 2 /\ resp.kind = "integrity"
    /\ \E oid \in OrderIds :
           orders[oid].user_id = 1 /\ orders[oid].idempotency_key = "k1"
    /\ \A oid \in OrderIds : orders[oid].user_id # 2

\* C8: when user A owns an order with key k, create_order by another user B
\* with key k and in-stock items succeeds and persists a new order of B.
C8_KeyScopedPerUser ==
    \A A, B \in Users, key \in OrderKeys \ {NoKey}, lines \in Requests(OrderLines) :
        LET r == create_order(orders, expired, products, B, lines, key, FALSE) IN
        (/\ A # B
         /\ \E oid \in OrderIds :
                orders[oid].user_id = A /\ orders[oid].idempotency_key = key
         /\ \A i \in 1..Len(lines) : ~Offending(lines, lines[i].slipper_id)) =>
            /\ r.kind = "ok"
            /\ Len(r.orders) = Len(orders) + 1
            /\ r.id = Len(orders) + 1
            /\ r.orders[r.id].user_id = B

\* C9: no operation sets the status of a PAID or REFUNDED order back to
\* PENDING.
C9_NeverBackToPending ==
    [][\A oid \in OrderIds :
          orders[oid].status \in {"PAID", "REFUNDED"} =>
              orders'[oid].status # "PENDING"]_vars

\* C10: an order's status changes only from PENDING to PAID, by a webhook,
\* and from PAID to REFUNDED.
C10_StatusPath ==
    [][\A oid \in OrderIds :
          orders'[oid].status # orders[oid].status =>
              \/ /\ orders[oid].status = "PENDING" /\ orders'[oid].status = "PAID"
                 /\ resp'.op = "octo_notify"
              \/ orders[oid].status = "PAID" /\ orders'[oid].status = "REFUNDED"]_vars

\* The lines of user u's cart, none when u has no cart.
LinesOf(cs, u) ==
    IF CartsOf(cs, u) = {} THEN <<>> ELSE cs[CHOOSE i \in CartsOf(cs, u) : TRUE].items

\* Quantities an add request may carry, for any product or for none.
AddQuantities == {1, 2, MaxCartQuantity}

ProductIds == Slippers \cup {Max(Slippers) + 1}

\* C18: after cart requests handled one after another every cart holds at
\* most one line per product, and add_item for a product already in the cart
\* raises that line to old + added without creating a line.
C18_OneLinePerProduct ==
    /\ \A c \in 1..Len(carts) :
           \A i, j \in 1..Len(carts[c].items) :
               carts[c].items[i].slipper_id = carts[c].items[j].slipper_id => i = j
    /\ \A u \in Users, sid \in ProductIds, quantity \in AddQuantities :
           LET r == add_item(carts, products, u, sid, quantity)
               before == LinesOf(carts, u)
               after == LinesOf(r.carts, u)
           IN \A k \in 1..Len(before) :
                  (before[k].slipper_id = sid /\ r.kind = "ok") =>
                      /\ Len(after) = Len(before)
                      /\ after[k] = [slipper_id |-> sid,
                                     quantity |-> before[k].quantity + quantity]
                      /\ \A j \in 1..Len(before) : j # k => after[j] = before[j]

\* C18 witness: add_item answered for a user whose cart holds a line of two
\* of product 1, which only a second add of that product produces.
C18_Witness ==
    /\ resp.op = "add_item" /\ resp.kind = "ok"
    /\ LinesOf(carts, resp.user) = <<[slipper_id |-> 1, quantity |-> 2]>>

\* C19: add_item fails with the stock error exactly when the resulting line
\* quantity exceeds the product's stock, and a stock or not-found failure
\* leaves the lines of every cart as they were.
C19_AddItemStock ==
    \A u \in Users, sid \in ProductIds, quantity \in AddQuantities :
        LET r == add_item(carts, products, u, sid, quantity)
            before == LinesOf(carts, u)
            held == IF \E k \in 1..Len(before) : before[k].slipper_id = sid
                    THEN before[CHOOSE k \in 1..Len(before) :
                                    before[k].slipper_id = sid].quantity
                    ELSE 0
        IN /\ sid \in Slippers =>
                  (r.kind = "stock" <=> held + quantity > products[sid].quantity)
           /\ sid \notin Slippers => r.kind = "not_found"
           /\ r.kind \in {"stock", "not_found"} =>
                  \A v \in Users : LinesOf(r.carts, v) = LinesOf(carts, v)

\* C19 witness: add_item refused, for lack of stock, an add to a cart that
\* holds lines, one of them filling the stock of its product.
C19_Witness ==
    /\ resp.op = "add_item" /\ resp.kind = "stock"
    /\ \E k \in 1..Len(LinesOf(carts, resp.user)) :
           LET line == LinesOf(carts, resp.user)[k] IN
           line.quantity = products[line.slipper_id].quantity

\* C20: every cart line has a quantity between 1 and 999.
C20_CartQuantityRange ==
    \A c \in 1..Len(carts) :
        \A k \in 1..Len(carts[c].items) :
            /\ carts[c].items[k].quantity >= 1
            /\ carts[c].items[k].quantity <= MaxCartQuantity

GatewayAnswers == {"fail", "uuid", "no_uuid"}

\* C11: a payment request for a REFUNDED order is refused with a client
\* error without calling the gateway, creates no payment and leaves the
\* orders as they were; a refund of a REFUNDED order is refused without
\* calling the gateway.
C11_RefundedIsTerminal ==
    \A oid \in OrderIds :
        orders[oid].status = "REFUNDED" =>
            /\ \A u \in Users, items \in {<<>>, <<Line(2, 1)>>}, override \in {NULL, 5},
                  gateway \in GatewayAnswers :
                   LET r == octo_create(payments, orders, carts, products, expired,
                                        u, oid, items, override, gateway)
                   IN /\ r.kind \in {"http_400", "http_403"}
                      /\ orders[oid].user_id = u => r.kind = "http_400"
                      /\ ~r.called
                      /\ r.payments = payments
                      /\ r.orders = orders
            /\ \A gateway \in {"fail", "ok"} :
                   LET r == refund(orders, oid, gateway) IN
                   r.kind = "http_400" /\ ~r.called /\ r.orders = orders

\* C11 witness: a payment request of a user with a filled cart was refused
\* with 400 while the orders table is full and every order in it is
\* REFUNDED, so the request named a REFUNDED order.
C11_Witness ==
    /\ resp.op = "octo_create" /\ resp.kind = "http_400"
    /\ LinesOf(carts, resp.user) # <<>>
    /\ Len(orders) = MaxOrders
    /\ \A oid \in OrderIds : orders[oid].status = "REFUNDED"

\* Status words of the gateway that report a captured payment, in the
\* spellings a webhook may carry.
PaidWords ==
    {"paid", "PAID", "Paid", "success", "SUCCESS", "succeeded", "Succeeded",
     "paid_and_captured", "Paid_And_Captured", "captured", "CAPTURED",
     "completed", "Completed"}

\* What a webhook body may carry as correlation id and as embedded order id:
\* nothing, an id that exists, an id that does not, and no integer.
NotifyUuids == 0..(MaxPayments + 1)
EmbeddedOrderIds == {NULL, 1, MaxOrders + 1, -1}

\* C12: a webhook that names, by shop_transaction_id, a payment linked to a
\* PENDING order and carries a status word for a captured payment answers
\* ok and leaves the payment PAID, the order PAID, the owner with a cart
\* row that holds no lines, and the patterns 'orders:' and 'order:<id>:'
\* invalidated.
C12_PaidWebhook ==
    \A p \in 1..Len(payments), uuid \in NotifyUuids, status \in PaidWords,
       order_id \in EmbeddedOrderIds :
        LET O == payments[p].order_id
            r == notify(payments, orders, carts,
                        Payload("object", payments[p].shop_transaction_id, uuid,
                                status, order_id))
        IN (O # NULL /\ orders[O].status = "PENDING") =>
               /\ r.kind = "ok"
               /\ r.payments[p].status = "PAID"
               /\ r.orders[O].status = "PAID"
               /\ CartsOf(r.carts, orders[O].user_id) # {}
               /\ \A c \in CartsOf(r.carts, orders[O].user_id) : r.carts[c].items = <<>>
               /\ r.invalidated = [orders |-> TRUE, order |-> O]

\* C12 witness: the webhook answered ok for the only payment, named by its
\* shop_transaction_id; the payment and its order are PAID and the owner's
\* cart row holds no lines.
C12_Witness ==
    /\ resp.op = "octo_notify" /\ resp.kind = "ok" /\ resp.order # NULL
    /\ Len(payments) = 1
    /\ payments[1].raw = <<Payload("object", 1, NULL, "Succeeded", NULL)>>
    /\ payments[1].status = "PAID" /\ payments[1].order_id = resp.order
    /\ orders[resp.order].status = "PAID"
    /\ CartsOf(carts, orders[resp.order].user_id) # {}
    /\ LinesOf(carts, orders[resp.order].user_id) = <<>>

\* Webhook bodies that parse to a JSON object: every shop_transaction_id and
\* correlation id, a status word of each kind, every embedded order id.
NotifyTxs == 0..(MaxPayments + 1)
ObjectBodies ==
    {Payload("object", tx, uuid, status, order_id) :
        tx \in NotifyTxs, uuid \in NotifyUuids,
        status \in {"Succeeded", "refunded", ""}, order_id \in EmbeddedOrderIds}

\* C13: the webhook answers ok for every body that parses to a JSON object,
\* whatever payment, correlation id or order id the body names.
C13_AlwaysAcknowledged ==
    \A payload \in ObjectBodies :
        notify(payments, orders, carts, payload).kind = "ok"

\* C14: when the webhook carries a status word for a captured payment and
\* the order update or the cart clearing fails, the payment it names is
\* PAID afterwards; when the cart clearing fails, the order it is linked to
\* is PAID afterwards.
C14_PaymentKeptOnFailure ==
    \A p \in 1..Len(payments), status \in PaidWords, fault \in Faults \ {"none"} :
        LET O == payments[p].order_id
            r == notify_with(payments, orders, carts,
                             Payload("object", payments[p].shop_transaction_id, NULL,
                                     status, NULL),
                             fault)
        IN /\ r.payments[p].status = "PAID"
           /\ (O # NULL /\ fault \in {"cart_read", "cart_commit"}) =>
                  r.orders[O].status = "PAID"

\* C14 witness: the webhook was handled for the order of the only payment;
\* the payment is PAID while its order is still PENDING, so the order update
\* failed.
C14_Witness ==
    /\ resp.op = "octo_notify" /\ resp.order # NULL
    /\ Len(payments) = 1
    /\ payments[1].order_id = resp.order /\ payments[1].status = "PAID"
    /\ orders[resp.order].status = "PENDING"

\* C15: the webhook acts on the payment with the body's shop_transaction_id
\* when there is one, whatever correlation id the body carries; only when
\* there is none it acts on the payment with the body's correlation id; a
\* body that matches neither is acknowledged and leaves payments, orders and
\* carts as they were.  The payment acted on holds the body in raw once the
\* webhook is acknowledged, and no other payment changes.
C15_LookupOrder ==
    \A payload \in ObjectBodies :
        LET r == notify(payments, orders, carts, payload)
            by_tx == {i \in 1..Len(payments) :
                         /\ payload.shop_transaction_id # NULL
                         /\ payments[i].shop_transaction_id = payload.shop_transaction_id}
            by_uuid == {i \in 1..Len(payments) :
                           /\ payload.payment_uuid # NULL
                           /\ payments[i].octo_payment_uuid = payload.payment_uuid}
            located == IF by_tx # {} THEN by_tx ELSE by_uuid
        IN /\ \A q \in 1..Len(payments) : q \notin located => r.payments[q] = payments[q]
           /\ (r.kind = "ok" /\ located # {}) =>
                  \A p \in located : r.payments[p].raw = <<payload>>
           /\ located = {} =>
                  /\ r.kind = "ok"
                  /\ r.payments = payments /\ r.orders = orders /\ r.carts = carts

\* C15 witness: the webhook was acknowledged for a body whose
\* shop_transaction_id no payment has, and the second payment, which has the
\* body's correlation id, holds that body.
C15_Witness ==
    /\ resp.op = "octo_notify" /\ resp.kind = "ok"
    /\ Len(payments) = MaxPayments
    /\ payments[MaxPayments].raw =
           <<Payload("object", MaxPayments + 1, MaxPayments, "CAPTURED", NULL)>>
    /\ payments[1].raw # payments[MaxPayments].raw

\* The status words of the gateway in the spellings a webhook may carry, by
\* the payment status they stand for; every other word, the empty and the
\* missing one stand for PENDING.
RefundedWords == {"refunded", "REFUNDED", "refund", "Refund"}
FailedWords == {"failed", "Failed", "error", "ERROR"}
CancelledWords == {"cancelled", "Cancelled", "canceled", "CANCELED"}
OtherWords == {"", "pending", "Pending", "AUTHORIZED", "created"}
StatusWords == PaidWords \cup RefundedWords \cup FailedWords \cup CancelledWords \cup OtherWords

StatusFor(word) ==
    IF word \in PaidWords THEN "PAID"
    ELSE IF word \in RefundedWords THEN "REFUNDED"
    ELSE IF word \in FailedWords THEN "FAILED"
    ELSE IF word \in CancelledWords THEN "CANCELLED"
    ELSE "PENDING"

\* C16: whatever else the body carries, the payment a webhook names holds
\* afterwards the payment status its status word stands for, in any
\* spelling of the word.
C16_MappedStatusPersisted ==
    \A p \in 1..Len(payments), status \in StatusWords, order_id \in EmbeddedOrderIds :
        LET r == notify(payments, orders, carts,
                        Payload("object", payments[p].shop_transaction_id, NULL,
                                status, order_id))
        IN r.payments[p].status = StatusFor(status)

\* C17: a webhook that names a payment invalidates the pattern 'orders:'
\* and, when the payment is linked to an order afterwards, the pattern
\* 'order:<id>:' of that order, for every status word.
C17_CachesInvalidated ==
    \A p \in 1..Len(payments), status \in StatusWords, order_id \in EmbeddedOrderIds :
        LET r == notify(payments, orders, carts,
                        Payload("object", payments[p].shop_transaction_id, NULL,
                                status, order_id))
        IN /\ r.invalidated.orders
           /\ r.payments[p].order_id # NULL =>
                  r.invalidated.order = r.payments[p].order_id

\* C21: for a user with more than one cart row get_or_create_cart answers
\* with the row of the smallest id and leaves the cart rows as they are.
C21_OldestCartReturned ==
    \A u \in Users :
        Cardinality(CartsOf(carts, u)) > 1 =>
            LET g == get_or_create_cart(carts, u) IN
            /\ g.kind = "ok"
            /\ \A c \in CartsOf(carts, u) : g.cart <= c
            /\ g.carts = carts

\* Quantities an update request may carry.
UpdateQuantities == {0, 1, 2, MaxCartQuantity}

\* C22: update_item and remove_item with a cart_item_id that is no line of
\* the caller's cart answer not-found and leave the lines of every cart as
\* they were; for a line of the caller's cart update_item with quantity 0
\* deletes the line, with a quantity within the stock sets the line to it,
\* and with a quantity above the stock answers the stock error and leaves
\* the lines as they were.  No other line changes.
C22_UpdateAndRemove ==
    \A u \in Users, id \in CartItemIds, quantity \in UpdateQuantities :
        LET before == LinesOf(carts, u)
            own == id.cart \in CartsOf(carts, u) /\ id.line \in 1..Len(before)
            upd == update_item(carts, products, u, id, quantity)
            rem == remove_item(carts, u, id)
            others(r) == \A v \in Users \ {u} : LinesOf(r.carts, v) = LinesOf(carts, v)
            stock == products[before[id.line].slipper_id].quantity
        IN /\ others(upd) /\ others(rem)
           /\ ~own =>
                  /\ upd.kind = "not_found" /\ LinesOf(upd.carts, u) = before
                  /\ rem.kind = "not_found" /\ LinesOf(rem.carts, u) = before
           /\ own =>
                  /\ rem.kind = "ok" /\ LinesOf(rem.carts, u) = RemoveAt(before, id.line)
                  /\ quantity = 0 =>
                         upd.kind = "ok" /\ LinesOf(upd.carts, u) = RemoveAt(before, id.line)
                  /\ (quantity > 0 /\ quantity <= stock) =>
                         /\ upd.kind = "ok"
                         /\ LinesOf(upd.carts, u) =
                                [before EXCEPT ![id.line].quantity = quantity]
                  /\ quantity > stock =>
                         upd.kind = "stock" /\ LinesOf(upd.carts, u) = before

\* C22 witness: update_item answered not-found to a user whose cart holds no
\* line while the cart of the other user holds two.
C22_Witness ==
    /\ resp.op = "update_item" /\ resp.kind = "not_found"
    /\ LinesOf(carts, resp.user) = <<>>
    /\ \E v \in Users \ {resp.user} : Len(LinesOf(carts, v)) = 2

\* C23: POST /orders and the payment request leave every cart as it was;
\* POST /orders/from-cart leaves every cart as it was unless clear_cart=true
\* was sent and the order was created, and then it empties the caller's
\* cart, with the order in the table, and leaves the other carts alone.
C23_CartFrame ==
    /\ [][resp'.op \in {"create_order", "octo_create"} => carts' = carts]_vars
    /\ [](\A u \in Users, clear \in BOOLEAN :
              LET r == order_from_cart(orders, expired, products, carts, u, clear) IN
              /\ (~clear \/ r.kind # "ok") => r.carts = carts
              /\ (clear /\ r.kind = "ok") =>
                     /\ r.id \notin 1..Len(orders) /\ Live(r.orders, r.id)
                     /\ LinesOf(r.carts, u) = <<>>
                     /\ \A v \in Users \ {u} : LinesOf(r.carts, v) = LinesOf(carts, v))

\* C23 witness: POST /orders/from-cart created the second order and the
\* caller's cart row holds no line, while the other user's cart holds one.
C23_Witness ==
    /\ resp.op = "from_cart" /\ resp.kind = "ok"
    /\ resp.order = MaxOrders /\ Live(orders, resp.order)
    /\ CartsOf(carts, resp.user) # {} /\ LinesOf(carts, resp.user) = <<>>
    /\ \E v \in Users \ {resp.user} : LinesOf(carts, v) # <<>>

\* C27: an order creation that fails because a product is missing or the
\* stock is exceeded ends, for POST /orders, POST /orders/from-cart and the
\* order-less payment request, with a status code of the 4xx class.
C27_CreationFailuresAre4xx ==
    (/\ resp.op \in {"create_order", "from_cart", "octo_create"}
     /\ resp.kind \in {"not_found", "stock"}) =>
        HttpStatus(resp.op, resp.kind) \in 400..499

\* The orders create_order may merge into for user u: the user's own,
\* PENDING, without payment_uuid, created inside the window.
Eligible(u) ==
    {i \in OrderIds :
        /\ Live(orders, i) /\ orders[i].user_id = u
        /\ orders[i].status = "PENDING" /\ orders[i].payment_uuid = NULL
        /\ i > expired}

\* The existing orders a create_order result has changed.
ChangedBy(r) == {i \in OrderIds : r.orders[i] # orders[i]}

\* The requests of the merge claims: every request of MergeRequests with
\* and without an idempotency key, and a product the catalog does not hold.
MergeInputs == MergeRequests \cup {<<Line(2, 2)>>, <<Line(Max(Slippers) + 1, 1)>>}

\* C24 as stated: create_order changes an existing order only with
\* merge_fallback, and then only the most recent order eligible for the
\* user; without the flag or without an eligible order it inserts a new
\* order and leaves the existing ones as they were.
C24_MergeEligibility ==
    \A u \in Users, lines \in MergeInputs, key \in OrderKeys, merge \in BOOLEAN :
        LET r == create_order(orders, expired, products, u, lines, key, merge) IN
        /\ ChangedBy(r) # {} =>
               /\ merge /\ Eligible(u) # {}
               /\ ChangedBy(r) = {Max(Eligible(u))}
        /\ (~merge \/ Eligible(u) = {}) =>
               /\ ChangedBy(r) = {}
               /\ Len(r.orders) = Len(orders) + 1

\* C24, amended: as C24, but a new order is inserted only by a request
\* that succeeds and does not replay an idempotency key of the user; a
\* failed request and a replay insert nothing.
C24_MergeEligibilityAmended ==
    \A u \in Users, lines \in MergeInputs, key \in OrderKeys, merge \in BOOLEAN :
        LET r == create_order(orders, expired, products, u, lines, key, merge)
            replay == /\ key # NoKey
                      /\ \E i \in OrderIds :
                             /\ Live(orders, i) /\ orders[i].user_id = u
                             /\ orders[i].idempotency_key = key
        IN
        /\ ChangedBy(r) # {} =>
               /\ merge /\ Eligible(u) # {}
               /\ ChangedBy(r) = {Max(Eligible(u))}
        /\ (~merge \/ Eligible(u) = {}) =>
               /\ ChangedBy(r) = {}
               /\ (r.kind = "ok" /\ ~replay) <=> Len(r.orders) = Len(orders) + 1
               /\ (r.kind # "ok" \/ replay) => r.orders = orders

\* C24 witness: create_order answered with the second order of its user
\* while that user's first order was eligible too; the order holds two
\* pieces of product 1, which only a merge of two requests produces.
C24_Witness ==
    /\ resp.op = "create_order" /\ resp.kind = "ok"
    /\ Len(orders) = MaxOrders /\ resp.order = MaxOrders
    /\ Eligible(resp.user) = OrderIds
    /\ Len(orders[1].items) = 1
    /\ Len(orders[MaxOrders].items) = 1
    /\ orders[MaxOrders].items[1].slipper_id = 1
    /\ orders[MaxOrders].items[1].quantity = 2

\* Requests of user 1 against the priced catalog.
PricedInputs == PricedRequests \cup {<<Line(2, 2)>>, <<Line(2, 1), Line(1, 1)>>}

\* C25: a change of a catalog price leaves every order as it is, and
\* create_order leaves the unit_price and total_price of every existing
\* OrderItem as they are except for an item of the merge target the request
\* names: that item gains quantity and takes the current catalog price; the
\* total_amount of an order changes only for the merge target, where it is
\* the sum of the items' total_price.
C25_PriceSnapshot ==
    /\ [][resp'.op = "update_slipper" => orders' = orders]_vars
    /\ [](\A lines \in PricedInputs, merge \in BOOLEAN :
              LET r == create_order(orders, expired, products, 1, lines, NoKey, merge)
                  merged(i) == merge /\ r.kind = "ok" /\ r.id = i
              IN \A i \in OrderIds :
                     /\ r.orders[i].total_amount # orders[i].total_amount =>
                            merged(i) /\ r.orders[i].total_amount = ItemTotals(r.orders[i].items)
                     /\ Len(r.orders[i].items) >= Len(orders[i].items)
                     /\ \A k \in 1..Len(orders[i].items) :
                            LET old == orders[i].items[k]
                                new == r.orders[i].items[k]
                                named == \E j \in 1..Len(lines) :
                                             lines[j].slipper_id = old.slipper_id
                            IN /\ new.slipper_id = old.slipper_id
                               /\ (~merged(i) \/ ~named) => new = old
                               /\ (merged(i) /\ named) =>
                                      /\ new.quantity > old.quantity
                                      /\ new.unit_price = products[old.slipper_id].price
                                      /\ new.total_price = new.unit_price * new.quantity)

\* C25 witness: after both catalog prices changed, a merge added a piece of
\* product 2 to an order that holds product 1 as well: product 2 is held at
\* the new price, product 1 at the price the order was created with.
C25_Witness ==
    /\ resp.op = "create_order" /\ resp.kind = "ok"
    /\ products[1].price = 15 /\ products[2].price = 15
    /\ orders[resp.order].items =
           <<[slipper_id |-> 1, quantity |-> 1, unit_price |-> 10, total_price |-> 10],
             [slipper_id |-> 2, quantity |-> 2, unit_price |-> 15, total_price |-> 30]>>
    /\ orders[resp.order].total_amount = 40

PaymentsUntouched ==
    /\ Len(payments') >= Len(payments)
    /\ \A i \in 1..Len(payments) : payments'[i] = payments[i]

C28_GatewayCallsNeverRaise ==
    outbound.fn # "none" =>
        /\ ~outbound.result.raised
        /\ LET wire == outbound.wire
               accepted == /\ outbound.valid
                           /\ wire.kind = "json"
                           /\ wire.body.type = "object"
                           /\ wire.body.error = 0
           IN ~accepted => /\ ~outbound.result.success
                           /\ outbound.result.errMessage # ""

\* key has pattern as a substring: it is a prefix, the pattern and a suffix.
HasSubstring(key, pattern) ==
    \E i, j \in 0..Len(key) :
        key = SubSeq(key, 1, i) \o pattern \o SubSeq(key, j + 1, Len(key))

\* C30: when invalidate_cache_pattern(p) has returned, no entry that was in
\* the map when the call began and whose key contains p is still in it; and
\* no step the invalidating task takes under the lock changes an unexpired
\* entry whose key does not contain p, whatever the other task does between
\* its steps.
C30_InvalidatePattern ==
    /\ [](tasks[Invalidator].pc = "returned" =>
              \A key \in CacheKeys :
                  (/\ HasSubstring(key, tasks[Invalidator].key)
                   /\ tasks[Invalidator].began[key] # NoEntry)
                      => cache[key] # tasks[Invalidator].began[key])
    /\ [][lock = Invalidator =>
              \A key \in CacheKeys :
                  (/\ ~HasSubstring(key, tasks[Invalidator].key)
                   /\ cache[key] # NoEntry
                   /\ clock < cache[key].expires)
                      => cache'[key] = cache[key]]_vars

\* C30 witness: invalidate_cache_pattern("orders:") has returned; "orders:1"
\* was in the map when the call began and was stored anew by the other task
\* while the call ran, and "user:1" holds the unexpired entry it held when
\* the call began.
C30_Witness ==
    LET call == tasks[Invalidator] IN
    /\ call.pc = "returned"
    /\ HasSubstring(OrdersKey, call.key) /\ ~HasSubstring(UserKey, call.key)
    /\ call.began[OrdersKey] # NoEntry
    /\ cache[OrdersKey] # NoEntry
    /\ cache[UserKey] # NoEntry
    /\ cache[UserKey] = call.began[UserKey]
    /\ clock < cache[UserKey].expires

\* C40: no request other than the admin's update of a product changes the
\* quantity or the price of any product.
C40_StockOnlyRead ==
    [][resp'.op # "update_slipper" => products' = products]_vars

\* C40 witness: the gateway reported the payment of an order of product 1
\* captured; the order is PAID and the stock of product 1 is what it was
\* before the order.
C40_Witness ==
    /\ resp.op = "octo_notify" /\ resp.kind = "ok"
    /\ resp.order \in OrderIds
    /\ orders[resp.order].status = "PAID"
    /\ \E k \in 1..Len(orders[resp.order].items) :
           orders[resp.order].items[k].slipper_id = 1
    /\ products[1].quantity = 2

\* Webhook bodies that report a payment captured, by its correlation id.
CapturedPayloads ==
    {Payload("object", NULL, uuid, "Succeeded", NULL) : uuid \in 1..MaxPayments}

C39_PaidOrderHasPaymentUuid ==
    \A oid \in OrderIds, gateway \in {"uuid", "no_uuid"} :
        LET created == octo_create(payments, orders, carts, products, expired,
                                   1, oid, <<>>, NULL, gateway)
            shop_transaction_id == Len(created.payments)
            captured == notify(created.payments, created.orders, carts,
                               Payload("object", shop_transaction_id,
                                       shop_transaction_id, "Succeeded", NULL))
        IN (/\ created.kind = "ok" /\ captured.kind = "ok"
            /\ captured.orders[oid].status = "PAID")
               => /\ captured.orders[oid].payment_uuid # NULL
                  /\ refund(captured.orders, oid, "ok").kind = "ok"

MergeFailing ==
    {<<Line(1, 1), Line(Max(Slippers) + 1, 1)>>,
     <<Line(1, 1), Line(2, MaxLineQuantity)>>,
     <<Line(1, 1), Line(2, 1)>>}

\* C36: in every reachable state with an eligible merge target of the
\* caller, a create_order with the merge enabled that fails on a line for a
\* missing product or for the stock leaves every order, the target with its
\* items and total included, as it was.
C36_FailedMergeLeavesTarget ==
    \A u \in Users, lines \in MergeFailing \cup MergeInputs :
        LET r == create_order(orders, expired, products, u, lines, NoKey, TRUE)
        IN (/\ MergeTarget(orders, expired, u, TRUE) # NULL
            /\ r.kind \in {"not_found", "stock"})
               => r.orders = orders

\* C36 witness: a merge was refused for the stock, and the target of the
\* caller is an order without product 1 that holds all the stock of
\* product 2: a request for one piece of each has its first line merged in
\* memory before its second line fails.
C36_Witness ==
    /\ resp.op = "create_order" /\ resp.kind = "stock"
    /\ LET t == MergeTarget(orders, expired, resp.user, TRUE) IN
       /\ t # NULL
       /\ \A k \in 1..Len(orders[t].items) : orders[t].items[k].slipper_id = 2
       /\ MergeLines(products,
                     [kind |-> "ok", detail |-> <<>>, items |-> orders[t].items,
                      new |-> <<>>],
                     <<Line(1, 1)>>).new # <<>>
       /\ create_order(orders, expired, products, resp.user,
                       <<Line(1, 1), Line(2, 1)>>, NoKey, TRUE).kind = "stock"

BothEnded(fn) ==
    \A s \in Sessions : sessions[s].fn = fn /\ sessions[s].pc \in {"returned", "raised"}

\* C31: when the create_order calls of two sessions of one user with one
\* idempotency key have both ended, however their steps interleaved, there
\* is exactly one order of the user with the key, and both calls returned
\* it: neither call raised.
C31_ConcurrentSameKeyBothReturn ==
    (/\ BothEnded("create_order")
     /\ sessions[1].user = sessions[2].user
     /\ sessions[1].key = sessions[2].key
     /\ sessions[1].key # NoKey)
        => /\ Cardinality(ExistingByKey(orders, sessions[1].user, sessions[1].key)) = 1
           /\ \A s \in Sessions :
                 /\ sessions[s].kind = "ok"
                 /\ sessions[s].id \in ExistingByKey(orders, sessions[1].user,
                                                     sessions[1].key)

\* C33: the stock validation of create_order reads the stock of the catalog
\* alone. In every reachable state an order of user 1 for any number of
\* pieces of product 1 up to the stored stock is accepted, whatever the
\* orders of the table hold already; and a session whose validation has
\* passed inserts its order, whatever other sessions have committed since.
C33_StockValidationNotSerialized ==
    /\ \A q \in 1..products[1].quantity :
          Len(orders) < MaxOrders
              => create_order(orders, expired, products, 1,
                              <<[slipper_id |-> 1, quantity |-> q]>>, NoKey,
                              FALSE).kind = "ok"
    /\ \A s \in Sessions :
          (sessions[s].fn = "create_order" /\ sessions[s].pc = "commit")
              => FreshOrder(orders, products, sessions[s].user, sessions[s].lines,
                            NoKey).kind = "ok"

\* C33 witness: both sessions validated their order while the table held no
\* order, both have returned an order of their own, and the two orders hold
\* more pieces of product 1 than the catalog has in stock.
C33_Witness ==
    /\ BothEnded("create_order")
    /\ \A s \in Sessions : sessions[s].kind = "ok" /\ sessions[s].validated_at = 0
    /\ sessions[1].id # sessions[2].id
    /\ \A s \in Sessions :
          \A k \in 1..Len(sessions[s].lines) :
              sessions[s].lines[k].quantity <= products[sessions[s].lines[k].slipper_id].quantity
    /\ Ordered(orders, 1) > products[1].quantity

\* C35: however the steps of the add_item calls of two sessions of one user
\* for one product interleave, neither call is refused by a unique index or
\* by a second cart, the user has at most one cart, and once no add_item is
\* in flight the line of the product holds the sum of the pieces the calls
\* have added.
C35_ConcurrentAddsAccumulate ==
    /\ \A s \in Sessions :
          sessions[s].fn = "add_item" => sessions[s].kind \notin {"integrity", "multiple"}
    /\ Cardinality(CartsOf(carts, 1)) <= 1
    /\ (\A s \in Sessions : sessions[s].pc \in {"idle", "returned", "raised"})
          => SumSeq([c \in 1..Len(carts) |->
                        SumSeq([k \in 1..Len(carts[c].items) |->
                                   carts[c].items[k].quantity])])
                 = sessions[1].added + sessions[2].added

====
